---- MODULE Spec2Model ----
(***************************************************************************)
(* Model of the TiDB community-intelligence issue pipeline:                *)
(*   src/src/data_collector.py  (TiDBDataCollector: collection, feature    *)
(*                               extraction, analytics, main)              *)
(*   src/demo/advanced_app.py   (load_data, similarity matcher)            *)
(*   src/demo/cloud_app.py      (live collection, simplified matcher /     *)
(*                               categorizer)                              *)
(* Python strings are TLA+ strings; substring tests, lower() and split()   *)
(* are computed character by character.                                    *)
(***************************************************************************)
EXTENDS Integers, Sequences, FiniteSets, TLC

VARIABLES
    pc,                \* position of the operation being run
    issue,             \* the raw issue handed to a single-issue function
    category,          \* categorize_issue's return value
    score,             \* calculate_engagement_score's return value
    issues,            \* process_issues: raw input list; matcher: the corpus
    processed_issues,  \* process_issues' output list / generate_analytics' input
    i,                 \* process_issues' loop index (issues done so far)
    clock,             \* the wall clock, a UTC instant in seconds
    tzOffset,          \* the local time zone's offset from UTC, in seconds
    query,             \* the matcher's free-text query
    top_k,             \* the matcher's result limit
    similarities,      \* advanced_app.find_similar_issues' local list
    similar_issues,    \* cloud_app.find_similar_issues' local list
    result,            \* the matcher's return value
    analytics,         \* generate_analytics' return value
    raised,            \* the exception an operation ended with, or None
    entry,             \* the entry point that fetches: collect_issues, main, cloud
    remote,            \* the records the issues endpoint serves, in served order
    max_issues,        \* collect_issues' max_issues argument
    page,              \* collect_issues' page counter
    requests,          \* the GET requests sent so far, with their outcome
    raw_issues,        \* collect_issues' return value (None until it returns)
    live_data,         \* collect_live_data's return value (None until it returns)
    saved,             \* what save_data wrote (None until main saves)
    files,             \* the persisted files of each candidate location
    issues_file,       \* load_data: the location the issues file was found at
    loaded,            \* load_data's return value (None until it returns)
    shown,             \* the message load_data showed: success or diagnostic
    stopped            \* the dashboard called st.stop()

oneVars  == <<issue, category, score>>
procVars == <<issues, processed_issues, i, clock, tzOffset>>
simVars  == <<query, top_k, similarities, similar_issues, result>>
aggVars  == <<analytics, raised>>
colVars  == <<entry, remote, max_issues, page, requests, raw_issues, live_data, saved>>
loadVars == <<files, issues_file, loaded, shown, stopped>>
vars == <<pc, oneVars, procVars, simVars, aggVars, colVars, loadVars>>

None == "None"

(***************************************************************************)
(* Bounds of the model                                                     *)
(***************************************************************************)
MaxCatLabels == 2

(***************************************************************************)
(* Python string primitives                                                *)
(***************************************************************************)
UpperAlpha == "ABCDEFGHIJKLMNOPQRSTUVWXYZ"
LowerAlpha == "abcdefghijklmnopqrstuvwxyz"
AlphaIdx == 1..Len(UpperAlpha)

CharAt(s, k) == SubSeq(s, k, k)

\* the lower-case letter of each upper-case letter
LowerOf ==
    [c \in {CharAt(UpperAlpha, k) : k \in AlphaIdx} |->
        CharAt(LowerAlpha, CHOOSE k \in AlphaIdx : CharAt(UpperAlpha, k) = c)]

LowerChar(c) == IF c \in DOMAIN LowerOf THEN LowerOf[c] ELSE c

\* Python's s.lower(), character by character; the text is halved so that
\* long texts need little nesting
RECURSIVE lower(_)
lower(s) ==
    IF Len(s) = 0 THEN ""
    ELSE IF Len(s) = 1 THEN LowerChar(s)
    ELSE LET mid == Len(s) \div 2
         IN  lower(SubSeq(s, 1, mid)) \o lower(SubSeq(s, mid + 1, Len(s)))

\* Python's `sub in s` on strings
Contains(s, sub) ==
    \E k \in 1..(Len(s) - Len(sub) + 1) : SubSeq(s, k, k + Len(sub) - 1) = sub

IsSpace(c) == c \in {" ", "\t", "\n"}

\* the elements seq[k], lo <= k <= hi, whose test keep[k] passed, in order;
\* the range is halved, so that long batches need little nesting
RECURSIVE SelectRange(_, _, _, _)
SelectRange(seq, keep, lo, hi) ==
    IF lo > hi THEN <<>>
    ELSE IF lo = hi THEN (IF keep[lo] THEN <<seq[lo]>> ELSE <<>>)
    ELSE LET mid == (lo + hi) \div 2
         IN  SelectRange(seq, keep, lo, mid) \o SelectRange(seq, keep, mid + 1, hi)

\* the elements seq[k] whose test keep[k] passed, in order (a filtering loop)
SelectInOrder(seq, keep, k) == SelectRange(seq, keep, k, Len(seq))

\* Python's s.split(): the maximal runs of non-whitespace characters, in order.
\* TokenEnd is the last position of the run that holds position k.
TokenEnd(s, k) ==
    CHOOSE e \in k..Len(s) :
        /\ \A j \in k..e : ~IsSpace(CharAt(s, j))
        /\ e = Len(s) \/ IsSpace(CharAt(s, e + 1))

split(s) ==
    LET starts == [k \in 1..Len(s) |->
                      /\ ~IsSpace(CharAt(s, k))
                      /\ k = 1 \/ IsSpace(CharAt(s, k - 1))]
        runs   == [k \in 1..Len(s) |->
                      IF starts[k] THEN SubSeq(s, k, TokenEnd(s, k)) ELSE ""]
    IN  SelectInOrder(runs, starts, 1)

\* Python's s.strip()
RECURSIVE lstrip(_)
lstrip(s) ==
    IF Len(s) > 0 /\ IsSpace(CharAt(s, 1)) THEN lstrip(SubSeq(s, 2, Len(s))) ELSE s
RECURSIVE rstrip(_)
rstrip(s) ==
    IF Len(s) > 0 /\ IsSpace(CharAt(s, Len(s)))
    THEN rstrip(SubSeq(s, 1, Len(s) - 1)) ELSE s
strip(s) == rstrip(lstrip(s))

\* Python's ' '.join(seq)
RECURSIVE join(_)
join(seq) ==
    IF Len(seq) = 0 THEN ""
    ELSE IF Len(seq) = 1 THEN seq[1]
    ELSE seq[1] \o " " \o join(Tail(seq))

Range(seq) == {seq[k] : k \in 1..Len(seq)}

Min(a, b) == IF a < b THEN a ELSE b

\* all sequences over S of length at most n
SeqsUpTo(S, n) == UNION {[1..k -> S] : k \in 0..n}

(***************************************************************************)
(* Raw issue records as the GitHub API delivers them.  labels and          *)
(* assignees are the sequences of label names and logins; milestone is the *)
(* milestone's title or None; created_at is the ISO-8601 text, kept as its *)
(* wall-clock reading in seconds and its UTC offset ("Z" is offset 0).     *)
(***************************************************************************)
NoIssue ==
    [id |-> 0, title |-> "", body |-> "", state |-> "open", comments |-> 0,
     labels |-> <<>>, assignees |-> <<>>, milestone |-> None,
     created_at |-> [wall |-> 0, offset |-> 0]]

\* the values of the variables an operation does not use
OneIdle  == issue = NoIssue /\ category = None /\ score = 0
ProcIdle == issues = <<>> /\ processed_issues = <<>> /\ i = 0 /\ clock = 0
            /\ tzOffset = 0
SimIdle  == query = "" /\ top_k = 0 /\ similarities = <<>> /\ similar_issues = <<>>
            /\ result = <<>>
AggIdle  == analytics = None /\ raised = None
ColIdle  == entry = None /\ remote = <<>> /\ max_issues = 0 /\ page = 0
            /\ requests = <<>> /\ raw_issues = None /\ live_data = None
            /\ saved = None
LoadIdle == files = <<>> /\ issues_file = None /\ loaded = None /\ shown = None
            /\ stopped = FALSE

(***************************************************************************)
(* TiDBDataCollector.categorize_issue                                      *)
(***************************************************************************)
PerformanceWords == <<"performance", "slow", "optimization", "latency">>
ConfigurationWords == <<"configuration", "config", "setup", "install">>
MigrationWords == <<"migration", "migrate", "import">>
ErrorWords == <<"error", "fail", "panic", "crash">>
DocumentationWords == <<"documentation", "doc", "readme">>
EnhancementLabels == <<"enhancement", "feature", "type/enhancement">>

AnyWordIn(words, text) == \E k \in 1..Len(words) : Contains(text, words[k])

\* the priority order of cloud_app.categorize_issue, put in the collector
categorize_issue_keywords_first(iss) ==
    LET labels == [k \in 1..Len(iss.labels) |-> lower(iss.labels[k])]
        title  == lower(iss.title)
    IN  IF \E k \in 1..Len(labels) : Contains(labels[k], "bug") THEN "bug"
        ELSE IF AnyWordIn(PerformanceWords, title) THEN "performance"
        ELSE IF \E k \in 1..Len(labels) : Contains(labels[k], "question") THEN "question"
        ELSE IF \E k \in 1..Len(labels) : labels[k] \in Range(EnhancementLabels)
             THEN "enhancement"
        ELSE IF \E k \in 1..Len(labels) : Contains(labels[k], "help") THEN "help"
        ELSE IF AnyWordIn(ConfigurationWords, title) THEN "configuration"
        ELSE IF AnyWordIn(MigrationWords, title) THEN "migration"
        ELSE IF AnyWordIn(ErrorWords, title) THEN "error"
        ELSE IF AnyWordIn(DocumentationWords, title) THEN "documentation"
        ELSE "other"

categorize_issue(iss) ==
    LET labels == [k \in 1..Len(iss.labels) |-> lower(iss.labels[k])]
        title  == lower(iss.title)
    IN  IF \E k \in 1..Len(labels) : Contains(labels[k], "bug") THEN "bug"
        ELSE IF \E k \in 1..Len(labels) : labels[k] \in Range(EnhancementLabels)
             THEN "enhancement"
        ELSE IF \E k \in 1..Len(labels) : Contains(labels[k], "question") THEN "question"
        ELSE IF \E k \in 1..Len(labels) : Contains(labels[k], "help") THEN "help"
        ELSE IF AnyWordIn(PerformanceWords, title) THEN "performance"
        ELSE IF AnyWordIn(ConfigurationWords, title) THEN "configuration"
        ELSE IF AnyWordIn(MigrationWords, title) THEN "migration"
        ELSE IF AnyWordIn(ErrorWords, title) THEN "error"
        ELSE IF AnyWordIn(DocumentationWords, title) THEN "documentation"
        ELSE "other"

(***************************************************************************)
(* cloud_app.categorize_issue                                              *)
(***************************************************************************)
CloudPerformanceWords == <<"performance", "slow", "optimization">>

cloud_categorize_issue(iss) ==
    LET labels == [k \in 1..Len(iss.labels) |-> lower(iss.labels[k])]
        title  == lower(iss.title)
    IN  IF (\E k \in 1..Len(labels) : Contains(labels[k], "bug"))
           \/ Contains(title, "bug") THEN "bug"
        ELSE IF AnyWordIn(CloudPerformanceWords, title) THEN "performance"
        ELSE IF \E k \in 1..Len(labels) : Contains(labels[k], "question") THEN "question"
        ELSE IF \E k \in 1..Len(labels) : Contains(labels[k], "enhancement")
             THEN "enhancement"
        ELSE "other"

(***************************************************************************)
(* Inputs of the categorizer: label names and titles as GitHub delivers    *)
(* them (mixed case, scoped labels, several keywords in one title)         *)
(***************************************************************************)
CatLabelPool ==
    {"type/bug", "Bug", "enhancement", "type/enhancement", "feature",
     "kind/feature-request", "type/question", "help wanted", "area/tikv"}

CatTitlePool ==
    {"Slow query performance with large dataset",
     "Config setup question",
     "Migrate import fails with panic",
     "TiDB crash: error in README doc",
     "Documentation for install latency",
     "Debugging a bug report",
     "Unrelated title",
     ""}

CatIssues ==
    {[NoIssue EXCEPT !.title = t, !.labels = ls] :
        t \in CatTitlePool, ls \in SeqsUpTo(CatLabelPool, MaxCatLabels)}

CatInit ==
    /\ pc = "cat_start"
    /\ issue \in CatIssues
    /\ category = None
    /\ score = 0
    /\ ProcIdle /\ SimIdle /\ AggIdle /\ ColIdle /\ LoadIdle

Categorize ==
    /\ pc = "cat_start"
    /\ category' = categorize_issue(issue)
    /\ pc' = "cat_done"
    /\ UNCHANGED <<issue, score, procVars, simVars, aggVars,
                 colVars, loadVars>>

\* cloud_app's categorize_issue(issue)
CloudCategorize ==
    /\ pc = "cat_start"
    /\ category' = cloud_categorize_issue(issue)
    /\ pc' = "cloud_cat_done"
    /\ UNCHANGED <<issue, score, procVars, simVars, aggVars,
                 colVars, loadVars>>

CatNext == Categorize \/ CloudCategorize

SpecCat == CatInit /\ [][CatNext]_vars

(***************************************************************************)
(* C1: the priority contract, stated on a table of (predicate, tag) pairs  *)
(***************************************************************************)
LowerLabels(iss) == {lower(iss.labels[k]) : k \in 1..Len(iss.labels)}

CatTags == <<"bug", "enhancement", "question", "help", "performance",
             "configuration", "migration", "error", "documentation", "other">>

RuleMatches(r, iss) ==
    CASE r = 1  -> \E l \in LowerLabels(iss) : Contains(l, "bug")
      [] r = 2  -> \E l \in LowerLabels(iss) : l \in Range(EnhancementLabels)
      [] r = 3  -> \E l \in LowerLabels(iss) : Contains(l, "question")
      [] r = 4  -> \E l \in LowerLabels(iss) : Contains(l, "help")
      [] r = 5  -> AnyWordIn(PerformanceWords, lower(iss.title))
      [] r = 6  -> AnyWordIn(ConfigurationWords, lower(iss.title))
      [] r = 7  -> AnyWordIn(MigrationWords, lower(iss.title))
      [] r = 8  -> AnyWordIn(ErrorWords, lower(iss.title))
      [] r = 9  -> AnyWordIn(DocumentationWords, lower(iss.title))
      [] OTHER  -> TRUE

\* C1: categorize_issue returns the tag of the first rule, in the fixed
\* priority order, whose predicate matches the issue: the returned tag's
\* rule matches, no rule of higher priority does, and an issue with a label
\* containing "bug" is always "bug".
C1_FirstMatchWins ==
    pc = "cat_done" =>
        /\ \E r \in 1..Len(CatTags) :
              /\ CatTags[r] = category
              /\ RuleMatches(r, issue)
              /\ \A h \in 1..(r - 1) : ~RuleMatches(h, issue)
        /\ (RuleMatches(1, issue) => category = "bug")

\* a bug-labelled issue that also carries a question label and a
\* performance keyword in its title has been categorized
C1_Witness ==
    /\ pc = "cat_done"
    /\ RuleMatches(1, issue)
    /\ RuleMatches(3, issue)
    /\ RuleMatches(5, issue)
    /\ category = "bug"

\* C30: for every raw issue that the collector's categorize_issue puts in
\* bug, enhancement, question or performance, cloud_app's categorize_issue
\* returns the same category; an issue with a question label and a
\* performance keyword in its title is "question" in both, and cloud_app
\* returns "bug" only for an issue with a label containing "bug".
C30_CategorizersAgree ==
    pc = "cloud_cat_done" =>
        /\ categorize_issue(issue) \in {"bug", "enhancement", "question", "performance"}
              => category = categorize_issue(issue)
        /\ (/\ RuleMatches(3, issue) /\ RuleMatches(5, issue)
            /\ ~RuleMatches(1, issue) /\ ~RuleMatches(2, issue))
              => category = "question"
        /\ category = "bug" => RuleMatches(1, issue)

(***************************************************************************)
(* TiDBDataCollector.calculate_engagement_score                            *)
(***************************************************************************)
CommentsCap == 20
EngagementCap == 50
AssigneeBonus == 3
MilestoneBonus == 5

\* the cap on the comment term taken with % instead of min
calculate_engagement_score_modcap(iss) ==
    LET s0 == (iss.comments * 2) % CommentsCap
        s1 == s0 + Len(iss.labels)
        s2 == s1 + Len(iss.assignees) * AssigneeBonus
        s3 == IF iss.milestone # None THEN s2 + MilestoneBonus ELSE s2
    IN  Min(s3, EngagementCap)

\* the final cap forgotten
calculate_engagement_score_uncapped(iss) ==
    LET s0 == Min(iss.comments * 2, CommentsCap)
        s1 == s0 + Len(iss.labels)
        s2 == s1 + Len(iss.assignees) * AssigneeBonus
        s3 == IF iss.milestone # None THEN s2 + MilestoneBonus ELSE s2
    IN  s3

\* every assignee counted once instead of three times
calculate_engagement_score_flat_assignees(iss) ==
    LET s0 == Min(iss.comments * 2, CommentsCap)
        s1 == s0 + Len(iss.labels)
        s2 == s1 + Len(iss.assignees)
        s3 == IF iss.milestone # None THEN s2 + MilestoneBonus ELSE s2
    IN  Min(s3, EngagementCap)

calculate_engagement_score(iss) ==
    LET s0 == Min(iss.comments * 2, CommentsCap)
        s1 == s0 + Len(iss.labels)
        s2 == s1 + Len(iss.assignees) * AssigneeBonus
        s3 == IF iss.milestone # None THEN s2 + MilestoneBonus ELSE s2
    IN  Min(s3, EngagementCap)

(***************************************************************************)
(* Inputs of the engagement score: every count of comments, labels and     *)
(* assignees up to the bounds, with and without a milestone                *)
(***************************************************************************)
MaxEngComments == 12
MaxEngLabels == 6
MaxEngAssignees == 8

EngLabelNames == <<"type/bug", "area/tikv", "severity/major", "help wanted">>
EngLogins == <<"alice", "bob", "carol">>

\* n names, taken in turn from a list of names
NamesOf(names, n) == [k \in 1..n |-> names[((k - 1) % Len(names)) + 1]]

EngIssue(c, nl, na, m) ==
    [NoIssue EXCEPT !.comments = c, !.labels = NamesOf(EngLabelNames, nl),
                    !.assignees = NamesOf(EngLogins, na), !.milestone = m]

EngInit ==
    /\ pc = "eng_start"
    /\ \E c \in 0..MaxEngComments, nl \in 0..MaxEngLabels,
          na \in 0..MaxEngAssignees, m \in {None, "v8.0"} :
          issue = EngIssue(c, nl, na, m)
    /\ category = None
    /\ score = 0
    /\ ProcIdle /\ SimIdle /\ AggIdle /\ ColIdle /\ LoadIdle

EngagementScore ==
    /\ pc = "eng_start"
    /\ score' = calculate_engagement_score(issue)
    /\ pc' = "eng_done"
    /\ UNCHANGED <<issue, category, procVars, simVars, aggVars,
                 colVars, loadVars>>

EngNext == EngagementScore

SpecEng == EngInit /\ [][EngNext]_vars

\* C7: for every issue with a non-negative comment count, any number of
\* labels and assignees and an optional milestone, the engagement score is
\* an integer between 0 and 50.
C7_ScoreInRange ==
    pc = "eng_done" => score \in 0..EngagementCap

\* an issue whose uncapped sum exceeds 50 has been scored
C7_Witness ==
    /\ pc = "eng_done"
    /\ calculate_engagement_score_uncapped(issue) > EngagementCap
    /\ score = EngagementCap

\* C8: the engagement score never drops when the comment count, the label
\* count or the assignee count grows by one while the other inputs stay
\* fixed: the score of each such larger issue is at least the returned one.
C8_Monotone ==
    pc = "eng_done" =>
        /\ calculate_engagement_score(
              [issue EXCEPT !.comments = @ + 1]) >= score
        /\ calculate_engagement_score(
              [issue EXCEPT !.labels = Append(@, "area/sql")]) >= score
        /\ calculate_engagement_score(
              [issue EXCEPT !.assignees = Append(@, "dave")]) >= score

\* an issue at the comment cap (10 comments) has been scored: one comment
\* more leaves the score where it is
C8_Witness ==
    /\ pc = "eng_done"
    /\ issue.comments * 2 = CommentsCap
    /\ score < EngagementCap
    /\ calculate_engagement_score([issue EXCEPT !.comments = @ + 1]) = score
    /\ calculate_engagement_score(
          [issue EXCEPT !.labels = Append(@, "area/sql")]) > score

\* the score as the claim states it
StatedEngagement(iss) ==
    LET comment_term   == IF iss.comments * 2 < 20 THEN iss.comments * 2 ELSE 20
        milestone_term == IF iss.milestone = None THEN 0 ELSE 5
        sum == comment_term + Len(iss.labels) + 3 * Len(iss.assignees)
                   + milestone_term
    IN  IF sum < 50 THEN sum ELSE 50

\* C21: calculate_engagement_score(issue) equals min(min(comments*2, 20) +
\* number of labels + 3 * number of assignees + (5 if a milestone is set,
\* else 0), 50); an issue with 12 comments, one label, no assignee and no
\* milestone scores 21.
C21_EngagementFormula ==
    pc = "eng_done" =>
        /\ score = StatedEngagement(issue)
        /\ (/\ issue.comments = 12 /\ Len(issue.labels) = 1
            /\ issue.assignees = <<>> /\ issue.milestone = None) => score = 21

\* the issue of the example has been scored: 12 comments, whose term the
\* cap cuts to 20, one label, no assignee and no milestone
C21_Witness ==
    /\ pc = "eng_done"
    /\ issue.comments = 12 /\ Len(issue.labels) = 1
    /\ issue.assignees = <<>> /\ issue.milestone = None
    /\ score = 21

(***************************************************************************)
(* TiDBDataCollector.extract_tech_context / extract_error_patterns         *)
(***************************************************************************)
tech_patterns ==
    << [tech |-> "kubernetes",
        keywords |-> <<"kubernetes", "k8s", "kubectl", "pod", "namespace", "helm">>],
       [tech |-> "docker",
        keywords |-> <<"docker", "container", "dockerfile", "image">>],
       [tech |-> "mysql",
        keywords |-> <<"mysql", "mariadb", "migration", "compatibility">>],
       [tech |-> "cloud",
        keywords |-> <<"aws", "azure", "gcp", "cloud", "s3", "ec2">>],
       [tech |-> "monitoring",
        keywords |-> <<"prometheus", "grafana", "monitoring", "metrics", "alerting">>],
       [tech |-> "backup",
        keywords |-> <<"backup", "restore", "br", "dumpling">>],
       [tech |-> "replication",
        keywords |-> <<"replication", "replica", "sync", "binlog">>],
       [tech |-> "performance",
        keywords |-> <<"slow", "performance", "optimization", "latency", "bottleneck">>],
       [tech |-> "tiflash",
        keywords |-> <<"tiflash", "columnar", "analytical">>],
       [tech |-> "tikv",
        keywords |-> <<"tikv", "storage", "raftstore">>],
       [tech |-> "pd",
        keywords |-> <<"pd", "placement driver", "scheduler">>],
       [tech |-> "cdc",
        keywords |-> <<"cdc", "change data capture", "ticdc">>] >>

error_keywords ==
    <<"error:", "failed:", "panic:", "exception:", "timeout:",
      "connection refused", "out of memory", "deadlock",
      "cannot connect", "permission denied", "not found">>

\* issue['body'] or ''
BodyOrEmpty(iss) == IF iss.body = None THEN "" ELSE iss.body

IssueText(iss) == lower(iss.title \o " " \o BodyOrEmpty(iss))

\* the scan stopped at the first tag that matches
extract_tech_context_first_only(iss) ==
    LET text == IssueText(iss)
        found == [k \in 1..Len(tech_patterns) |->
                     AnyWordIn(tech_patterns[k].keywords, text)]
        hits == SelectInOrder(tech_patterns, found, 1)
    IN  [k \in 1..Min(1, Len(hits)) |-> hits[k].tech]

extract_tech_context(iss) ==
    LET text == IssueText(iss)
        found == [k \in 1..Len(tech_patterns) |->
                     AnyWordIn(tech_patterns[k].keywords, text)]
        hits == SelectInOrder(tech_patterns, found, 1)
    IN  [k \in 1..Len(hits) |-> hits[k].tech]

extract_error_patterns(iss) ==
    LET text == IssueText(iss)
        found == [k \in 1..Len(error_keywords) |-> Contains(text, error_keywords[k])]
    IN  SelectInOrder(error_keywords, found, 1)

(***************************************************************************)
(* TiDBDataCollector.is_recent_issue.  A datetime is its wall-clock        *)
(* reading and, when aware, its UTC offset; aware datetimes compare by     *)
(* instant (wall - offset).  datetime.now() is the naive local time.       *)
(***************************************************************************)
RecentDays == 90
SecondsPerDay == 86400

Instant(dt) == dt.wall - dt.offset

\* datetime.now(): the local wall-clock reading of the instant t
LocalNow(t, tz) == t + tz

is_recent_issue(created_at, t, tz) ==
    LET created_date == created_at
        recent_threshold ==
            [wall |-> LocalNow(t, tz) - RecentDays * SecondsPerDay,
             offset |-> created_date.offset]
    IN  Instant(created_date) > Instant(recent_threshold)

(***************************************************************************)
(* TiDBDataCollector.process_issues: one iteration of the loop builds one  *)
(* processed record; is_recent_issue reads the clock at that moment.       *)
(***************************************************************************)
\* has_solution computed from the state alone
has_solution_state_only(iss) == iss.state = "closed"

has_solution(iss) == iss.state = "closed" /\ iss.comments > 0

process_issue(iss, t, tz) ==
    [id               |-> iss.id,
     title            |-> iss.title,
     body             |-> BodyOrEmpty(iss),
     state            |-> iss.state,
     created_at       |-> iss.created_at,
     labels           |-> iss.labels,
     comments_count   |-> iss.comments,
     assignees        |-> iss.assignees,
     milestone        |-> iss.milestone,
     category         |-> categorize_issue(iss),
     tech_context     |-> extract_tech_context(iss),
     error_patterns   |-> extract_error_patterns(iss),
     has_solution     |-> has_solution(iss),
     is_recent        |-> is_recent_issue(iss.created_at, t, tz),
     engagement_score |-> calculate_engagement_score(iss)]

(***************************************************************************)
(* cloud_app: extract_tech_context and the record that collect_live_data   *)
(* builds for each fetched issue                                           *)
(***************************************************************************)
tech_keywords ==
    << [tech |-> "kubernetes", keywords |-> <<"kubernetes", "k8s", "kubectl">>],
       [tech |-> "docker", keywords |-> <<"docker", "container", "dockerfile">>],
       [tech |-> "mysql", keywords |-> <<"mysql", "mariadb", "migration">>],
       [tech |-> "cloud", keywords |-> <<"aws", "azure", "gcp", "cloud">>],
       [tech |-> "monitoring", keywords |-> <<"prometheus", "grafana", "monitoring">>],
       [tech |-> "performance",
        keywords |-> <<"slow", "performance", "optimization", "latency">>] >>

cloud_extract_tech_context(iss) ==
    LET text == IssueText(iss)
        found == [k \in 1..Len(tech_keywords) |->
                     AnyWordIn(tech_keywords[k].keywords, text)]
        hits == SelectInOrder(tech_keywords, found, 1)
    IN  [k \in 1..Len(hits) |-> hits[k].tech]

cloud_process_issue(iss) ==
    [id           |-> iss.id,
     title        |-> iss.title,
     body         |-> BodyOrEmpty(iss),
     state        |-> iss.state,
     labels       |-> iss.labels,
     comments     |-> iss.comments,
     created_at   |-> iss.created_at,
     is_solved    |-> iss.state = "closed" /\ iss.comments > 0,
     category     |-> cloud_categorize_issue(iss),
     tech_context |-> cloud_extract_tech_context(iss)]

(***************************************************************************)
(* Raw issues of the runs.  Clock0 is the instant a run starts at; the     *)
(* creation times lie around the 90-day threshold of that instant.         *)
(***************************************************************************)
MaxRun == 2
MaxTicks == 2

Clock0 == RecentDays * SecondsPerDay + 1000
Utc(t) == [wall |-> t, offset |-> 0]
OnThreshold == Utc(Clock0 - RecentDays * SecondsPerDay + 1)
Old == Utc(Clock0 - RecentDays * SecondsPerDay - 5)
Fresh == Utc(Clock0 - 10)

RawPool ==
    { [id |-> 1, title |-> "TiDB connection timeout in Kubernetes cluster",
       body |-> "k8s timeout under load", state |-> "closed", comments |-> 12,
       labels |-> <<"type/bug", "kubernetes">>, assignees |-> <<"alice">>,
       milestone |-> "v8.0", created_at |-> OnThreshold],
      [id |-> 2, title |-> "Slow query performance with large dataset",
       body |-> "need optimization tips for mysql on aws", state |-> "open",
       comments |-> 8,
       labels |-> <<"type/question">>, assignees |-> <<>>,
       milestone |-> None, created_at |-> Fresh],
      [id |-> 3, title |-> "Docker deployment help",
       body |-> None, state |-> "closed", comments |-> 0,
       labels |-> <<"question", "area/deployment">>, assignees |-> <<>>,
       milestone |-> None, created_at |-> OnThreshold],
      [id |-> 4, title |-> "Backup timeout",
       body |-> "restore fails: timeout", state |-> "closed", comments |-> 16,
       labels |-> <<>>, assignees |-> <<>>,
       milestone |-> None, created_at |-> Old],
      [id |-> 5, title |-> "Unrelated",
       body |-> "nothing here", state |-> "open", comments |-> 0,
       labels |-> <<"area/sql">>, assignees |-> <<"bob">>,
       milestone |-> None, created_at |-> Old] }

TzPool == {0, 8 * 3600}

ProcInit ==
    /\ pc = "proc_loop"
    /\ issues \in SeqsUpTo(RawPool, MaxRun)
    /\ processed_issues = <<>>
    /\ i = 0
    /\ clock = Clock0
    /\ tzOffset \in TzPool
    /\ OneIdle /\ SimIdle /\ AggIdle /\ ColIdle /\ LoadIdle

\* a loop body that keeps the category of the issue before
process_step_stale_category(done, iss, t, tz) ==
    Append(done,
           IF done = <<>> THEN process_issue(iss, t, tz)
           ELSE [process_issue(iss, t, tz) EXCEPT !.category = done[Len(done)].category])

\* the loop body: build the record of one issue and append it
process_step(done, iss, t, tz) == Append(done, process_issue(iss, t, tz))

\* one iteration of `for i, issue in enumerate(issues)`
ProcessOne ==
    /\ pc = "proc_loop"
    /\ i < Len(issues)
    /\ processed_issues' =
          process_step(processed_issues, issues[i + 1], clock, tzOffset)
    /\ i' = i + 1
    /\ UNCHANGED <<pc, issues, clock, tzOffset, oneVars, simVars, aggVars,
                 colVars, loadVars>>

\* the loop is exhausted: return processed_issues
ProcessReturn ==
    /\ pc = "proc_loop"
    /\ i = Len(issues)
    /\ pc' = "proc_done"
    /\ UNCHANGED <<procVars, oneVars, simVars, aggVars,
                 colVars, loadVars>>

\* time passes while the run is in progress
Tick ==
    /\ pc = "proc_loop"
    /\ clock < Clock0 + MaxTicks
    /\ clock' = clock + 1
    /\ UNCHANGED <<pc, issues, processed_issues, i, tzOffset, oneVars, simVars, aggVars,
                 colVars, loadVars>>

ProcNext == ProcessOne \/ ProcessReturn \/ Tick

SpecProc == ProcInit /\ [][ProcNext]_vars

\* C9: every processed issue is marked solved exactly when its raw issue is
\* closed and has more than 0 comments; the record the cloud app builds for
\* the same raw issue has is_solved by the same rule.
C9_HasSolutionIff ==
    \A k \in 1..Len(processed_issues) :
        LET solved == issues[k].state = "closed" /\ issues[k].comments > 0
        IN  /\ processed_issues[k].has_solution <=> solved
            /\ cloud_process_issue(issues[k]).is_solved <=> solved

\* a run has returned after processing a closed issue without comments (not
\* solved) and a closed issue with comments (solved)
C9_Witness ==
    /\ pc = "proc_done"
    /\ \E k \in 1..Len(processed_issues) :
          /\ issues[k].state = "closed" /\ issues[k].comments = 0
          /\ ~processed_issues[k].has_solution
    /\ \E k \in 1..Len(processed_issues) :
          /\ issues[k].state = "closed" /\ issues[k].comments > 0
          /\ processed_issues[k].has_solution

\* C10: within one process_issues run, two issues with the same created_at
\* receive the same is_recent value, even if the clock advances during the
\* run.
C10_ConsistentCutoff ==
    pc = "proc_done" =>
        \A k, m \in 1..Len(processed_issues) :
            issues[k].created_at = issues[m].created_at
                => processed_issues[k].is_recent = processed_issues[m].is_recent

\* the attributes process_issues derives
DerivedAttributes ==
    {"category", "tech_context", "error_patterns", "has_solution", "is_recent",
     "engagement_score"}

Derived(p) == [a \in DerivedAttributes |-> p[a]]

C22_RecentIffUnder90Days ==
    \A k \in 1..Len(processed_issues) :
        \E t \in Clock0..clock :
            processed_issues[k].is_recent
                <=> (t - Instant(issues[k].created_at) < RecentDays * SecondsPerDay)

\* the tags of a trigger table of which at least one trigger occurs in the
\* lower-cased title, a space and the body of a raw issue
StatedTags(table, iss) ==
    LET text == lower(iss.title \o " " \o (IF iss.body = None THEN "" ELSE iss.body))
    IN  {table[k].tech : k \in {n \in 1..Len(table) :
            \E j \in 1..Len(table[n].keywords) : Contains(text, table[n].keywords[j])}}

StatedTagTable == [r \in RawPool |-> StatedTags(tech_patterns, r)]
CloudStatedTagTable == [r \in RawPool |-> StatedTags(tech_keywords, r)]
CloudTagTable == [r \in RawPool |-> cloud_extract_tech_context(r)]

\* C23: the tech_context of every processed issue lists exactly the tags of
\* which at least one trigger occurs as a substring of the lower-cased title
\* and body, each tag once; the same holds of cloud_app's extract_tech_context
\* with its own trigger table.
C23_TechContextIsMatchingSet ==
    \A k \in 1..Len(processed_issues) :
        LET tc == processed_issues[k].tech_context
            cc == CloudTagTable[issues[k]]
        IN  /\ Range(tc) = StatedTagTable[issues[k]]
            /\ Cardinality(Range(tc)) = Len(tc)
            /\ Range(cc) = CloudStatedTagTable[issues[k]]
            /\ Cardinality(Range(cc)) = Len(cc)

\* a run has processed an issue with three tags at once and an issue in
\* which two triggers of one tag occur, the tag listed once
C23_Witness ==
    /\ pc = "proc_done"
    /\ \E k \in 1..Len(processed_issues) :
          /\ Len(processed_issues[k].tech_context) = 3
          /\ Len(CloudTagTable[issues[k]]) = 3
    /\ \E k \in 1..Len(processed_issues) :
          /\ Contains(lower(issues[k].title), "kubernetes")
          /\ Contains(lower(issues[k].body), "k8s")
          /\ processed_issues[k].tech_context = <<"kubernetes">>

(***************************************************************************)
(* advanced_app.calculate_similarity / get_solution_confidence /           *)
(* find_similar_issues.  A similarity is the exact ratio num/den of the    *)
(* float the code computes; a confidence is counted in hundredths.         *)
(***************************************************************************)
TitleWeight == 3
BodyWeight == 1
LabelWeight == 2
TechWeight == 4

\* token sets that keep the letter case
Words_case_sensitive(s) == Range(split(s))

Words(s) == Range(split(lower(s)))

Ratio(n, d) == [num |-> n, den |-> d]
RatLess(a, b) == a.num * b.den < b.num * a.den
RatEq(a, b) == a.num * b.den = b.num * a.den
RatOne == Ratio(1, 1)
RatZero == Ratio(0, 1)
\* min(x, 1.0)
ClampOne(r) == IF RatLess(RatOne, r) THEN RatOne ELSE r

\* the clamp `min(similarity, 1.0)` left out
calculate_similarity_unclamped(q, iss) ==
    LET query_words   == Words(q)
        title_words   == Words(iss.title)
        body_words    == Words(BodyOrEmpty(iss))
        label_words   == Words(join(iss.labels))
        tech_words    == Range(iss.tech_context)
        title_overlap == Cardinality(query_words \cap title_words) * TitleWeight
        body_overlap  == Cardinality(query_words \cap body_words) * BodyWeight
        label_overlap == Cardinality(query_words \cap label_words) * LabelWeight
        tech_overlap  == Cardinality(query_words \cap tech_words) * TechWeight
        total_overlap == title_overlap + body_overlap + label_overlap + tech_overlap
        max_possible  == Cardinality(query_words) * TechWeight
    IN  IF max_possible > 0 THEN Ratio(total_overlap, max_possible) ELSE RatZero

\* a similarity normalised by all four weights per query word
calculate_similarity_full_norm(q, iss) ==
    LET query_words   == Words(q)
        title_words   == Words(iss.title)
        body_words    == Words(BodyOrEmpty(iss))
        label_words   == Words(join(iss.labels))
        tech_words    == Range(iss.tech_context)
        title_overlap == Cardinality(query_words \cap title_words) * TitleWeight
        body_overlap  == Cardinality(query_words \cap body_words) * BodyWeight
        label_overlap == Cardinality(query_words \cap label_words) * LabelWeight
        tech_overlap  == Cardinality(query_words \cap tech_words) * TechWeight
        total_overlap == title_overlap + body_overlap + label_overlap + tech_overlap
        max_possible  == Cardinality(query_words)
                            * (TitleWeight + BodyWeight + LabelWeight + TechWeight)
        similarity    == IF max_possible > 0
                         THEN Ratio(total_overlap, max_possible) ELSE RatZero
    IN  ClampOne(similarity)

calculate_similarity(q, iss) ==
    LET query_words   == Words(q)
        title_words   == Words(iss.title)
        body_words    == Words(BodyOrEmpty(iss))
        label_words   == Words(join(iss.labels))
        tech_words    == Range(iss.tech_context)
        title_overlap == Cardinality(query_words \cap title_words) * TitleWeight
        body_overlap  == Cardinality(query_words \cap body_words) * BodyWeight
        label_overlap == Cardinality(query_words \cap label_words) * LabelWeight
        tech_overlap  == Cardinality(query_words \cap tech_words) * TechWeight
        total_overlap == title_overlap + body_overlap + label_overlap + tech_overlap
        max_possible  == Cardinality(query_words) * TechWeight
        similarity    == IF max_possible > 0
                         THEN Ratio(total_overlap, max_possible) ELSE RatZero
    IN  ClampOne(similarity)

\* confidence terms, in hundredths
SolvedConfidence == 50
PerCommentConfidence == 2
CommentConfidenceCap == 30
RecentConfidence == 10
PerEngagementConfidence == 1
EngagementConfidenceCap == 10
ConfidenceCap == 100

\* a confidence whose comment term has no cap
get_solution_confidence_uncapped_comments(iss) ==
    LET c0 == IF iss.has_solution THEN SolvedConfidence ELSE 0
        c1 == c0 + iss.comments_count * PerCommentConfidence
        c2 == IF iss.is_recent THEN c1 + RecentConfidence ELSE c1
        c3 == c2 + Min(iss.engagement_score * PerEngagementConfidence,
                       EngagementConfidenceCap)
    IN  Min(c3, ConfidenceCap)

get_solution_confidence(iss) ==
    LET c0 == IF iss.has_solution THEN SolvedConfidence ELSE 0
        c1 == c0 + Min(iss.comments_count * PerCommentConfidence, CommentConfidenceCap)
        c2 == IF iss.is_recent THEN c1 + RecentConfidence ELSE c1
        c3 == c2 + Min(iss.engagement_score * PerEngagementConfidence,
                       EngagementConfidenceCap)
    IN  Min(c3, ConfidenceCap)

\* the sort key without its second component
KeyLess_similarity_only(a, b) == RatLess(a.similarity, b.similarity)

\* the sort key (similarity, confidence), compared as Python compares tuples
KeyLess(a, b) ==
    \/ RatLess(a.similarity, b.similarity)
    \/ RatEq(a.similarity, b.similarity) /\ a.confidence < b.confidence

\* list.sort(key=..., reverse=True): descending and stable.  less[a][b]
\* tells whether the key of seq[a] is below the key of seq[b]; acc holds the
\* positions sorted so far.
RECURSIVE SortDescFrom(_, _, _, _)
SortDescFrom(seq, less, k, acc) ==
    IF k > Len(seq) THEN [j \in 1..Len(acc) |-> seq[acc[j]]]
    ELSE LET pos == Cardinality({j \in 1..Len(acc) : ~less[acc[j]][k]})
         IN  SortDescFrom(seq, less, k + 1,
                 SubSeq(acc, 1, pos) \o <<k>> \o SubSeq(acc, pos + 1, Len(acc)))

SortDesc(seq, less) == SortDescFrom(seq, less, 1, <<>>)

\* the candidates in the order find_similar_issues sorts them into
SortCandidates(cands) ==
    SortDesc(cands, [a \in 1..Len(cands) |->
                       [b \in 1..Len(cands) |-> KeyLess(cands[a], cands[b])]])

\* the slice taken one element too long
SliceTo_off_by_one(seq, n) == SubSeq(seq, 1, Min(n + 1, Len(seq)))

\* Python's seq[:n]
SliceTo(seq, n) ==
    IF n >= 0 THEN SubSeq(seq, 1, Min(n, Len(seq)))
    ELSE SubSeq(seq, 1, IF Len(seq) + n > 0 THEN Len(seq) + n ELSE 0)

\* the candidate test with >= for >
IsCandidate_or_zero(similarity) == ~RatLess(similarity, RatZero)

\* the candidate test `if similarity > 0`
IsCandidate(similarity) == RatLess(RatZero, similarity)

\* the loop of find_similar_issues: one entry per issue that passes the test
Candidates(q, corpus) ==
    LET entries == [k \in 1..Len(corpus) |->
                       [issue      |-> corpus[k],
                        similarity |-> calculate_similarity(q, corpus[k]),
                        confidence |-> get_solution_confidence(corpus[k])]]
        keep == [k \in 1..Len(corpus) |-> IsCandidate(entries[k].similarity)]
    IN  SelectInOrder(entries, keep, 1)

(***************************************************************************)
(* cloud_app.find_similar_issues                                           *)
(***************************************************************************)
CloudTitleWeight == 2

CloudLess(a, b) == RatLess(a.similarity, b.similarity)

cloud_sort(cands) ==
    SortDesc(cands, [a \in 1..Len(cands) |->
                       [b \in 1..Len(cands) |-> CloudLess(cands[a], cands[b])]])

cloud_candidates(q, corpus) ==
    LET query_words == Words(q)
        Entry(iss) ==
            LET title_words   == Words(iss.title)
                body_words    == Words(BodyOrEmpty(iss))
                title_overlap == Cardinality(query_words \cap title_words)
                body_overlap  == Cardinality(query_words \cap body_words)
            IN  [issue |-> iss,
                 hit |-> title_overlap > 0 \/ body_overlap > 0,
                 similarity |->
                     IF title_overlap > 0 \/ body_overlap > 0
                     THEN ClampOne(Ratio(title_overlap * CloudTitleWeight + body_overlap,
                                         Cardinality(query_words)))
                     ELSE RatZero]
        entries == [k \in 1..Len(corpus) |-> Entry(corpus[k])]
        keep == [k \in 1..Len(corpus) |-> entries[k].hit]
        kept == SelectInOrder(entries, keep, 1)
    IN  [k \in 1..Len(kept) |->
            [issue |-> kept[k].issue, similarity |-> kept[k].similarity]]

(***************************************************************************)
(* The matcher's inputs: corpora of processed issues (the records          *)
(* process_issues builds from the raw issues at Clock0) and queries        *)
(***************************************************************************)
MaxCorpus == 3
MaxTopK == 3

ProcessedPool == {process_issue(r, Clock0, 0) : r \in RawPool}

QueryPool ==
    {"", "  ", "kubernetes timeout", "timeout", "Timeout  timeout", "Question",
     "Performance slow", "backup docker load"}

SimInit ==
    /\ pc = "sim_start"
    /\ query \in QueryPool
    /\ issues \in SeqsUpTo(ProcessedPool, MaxCorpus)
    /\ top_k \in 0..MaxTopK
    /\ similarities = <<>>
    /\ similar_issues = <<>>
    /\ result = <<>>
    /\ processed_issues = <<>> /\ i = 0 /\ clock = 0 /\ tzOffset = 0
    /\ OneIdle /\ AggIdle /\ ColIdle /\ LoadIdle

\* advanced_app.find_similar_issues(query, issues, top_k)
FindSimilar ==
    /\ pc = "sim_start"
    /\ IF strip(query) = ""
       THEN similarities' = <<>> /\ result' = <<>>
       ELSE /\ similarities' = SortCandidates(Candidates(query, issues))
            /\ result' = SliceTo(similarities', top_k)
    /\ pc' = "adv_done"
    /\ UNCHANGED <<query, top_k, similar_issues, procVars, oneVars, aggVars,
                 colVars, loadVars>>

\* cloud_app.find_similar_issues(query, issues, max_results)
CloudFindSimilar ==
    /\ pc = "sim_start"
    /\ IF strip(query) = ""
       THEN similar_issues' = <<>> /\ result' = <<>>
       ELSE /\ similar_issues' = cloud_sort(cloud_candidates(query, issues))
            /\ result' = SliceTo(similar_issues', top_k)
    /\ pc' = "cloud_done"
    /\ UNCHANGED <<query, top_k, similarities, procVars, oneVars, aggVars,
                 colVars, loadVars>>

SimNext == FindSimilar \/ CloudFindSimilar

SpecSim == SimInit /\ [][SimNext]_vars

(***************************************************************************)
(* Claims about the matcher                                                *)
(***************************************************************************)
Idx(seq) == 1..Len(seq)

\* the texts the matcher reads in a run: the queries and the titles, bodies
\* and labels of the processed issues; and the lower-cased whitespace tokens
\* of each text
MatcherTexts ==
    QueryPool \cup {p.title : p \in ProcessedPool}
              \cup {BodyOrEmpty(p) : p \in ProcessedPool}
              \cup UNION {Range(p.labels) : p \in ProcessedPool}

TokenTable == [s \in MatcherTexts |-> Range(split(lower(s)))]

\* the lower-cased whitespace tokens of a query
QueryTokens(q) == TokenTable[q]

\* the token sets of a processed issue
TitleWords(iss) == TokenTable[iss.title]
BodyWords(iss) == TokenTable[BodyOrEmpty(iss)]
TitleBodyWords(iss) == TitleWords(iss) \cup BodyWords(iss)
LabelWords(iss) == UNION {TokenTable[iss.labels[k]] : k \in Idx(iss.labels)}
TechTags(iss) == Range(iss.tech_context)

\* the weight one query word collects from an issue with the given title
\* words, body words, label words and tech tags
WordWeight(w, tw, bw, lw, tt) ==
      (IF w \in tw THEN TitleWeight ELSE 0)
    + (IF w \in bw THEN BodyWeight ELSE 0)
    + (IF w \in lw THEN LabelWeight ELSE 0)
    + (IF w \in tt THEN TechWeight ELSE 0)

RECURSIVE WeightOf(_, _, _, _, _)
WeightOf(ws, tw, bw, lw, tt) ==
    IF ws = {} THEN 0
    ELSE LET w == CHOOSE x \in ws : TRUE
         IN  WordWeight(w, tw, bw, lw, tt) + WeightOf(ws \ {w}, tw, bw, lw, tt)

\* the weighted overlap of each query with each processed issue
OverlapTable ==
    [q \in QueryPool |-> [p \in ProcessedPool |->
        WeightOf(QueryTokens(q), TitleWords(p), BodyWords(p), LabelWords(p),
                 TechTags(p))]]

WeightedOverlap(q, iss) == OverlapTable[q][iss]

\* the key the advanced matcher ranks an issue by, for each query
AdvKeyTable ==
    [q \in QueryPool |-> [p \in ProcessedPool |->
        [similarity |-> calculate_similarity(q, p),
         confidence |-> get_solution_confidence(p)]]]

AdvKey(iss) == AdvKeyTable[query][iss]

\* what the cloud matcher makes of a corpus of one issue, for each query
CloudKeyTable ==
    [q \in QueryPool |-> [p \in ProcessedPool |-> cloud_candidates(q, <<p>>)]]

\* C2: the sequence find_similar_issues returns is sorted by (similarity
\* desc, confidence desc): of two adjacent results the first has the greater
\* similarity, or the same similarity and a confidence at least as great.
C2_SortedBySimilarityThenConfidence ==
    pc = "adv_done" =>
        \A k \in 1..(Len(result) - 1) :
            \/ RatLess(result[k + 1].similarity, result[k].similarity)
            \/ /\ RatEq(result[k].similarity, result[k + 1].similarity)
               /\ result[k].confidence >= result[k + 1].confidence

\* two issues of equal similarity were returned in the reverse of their
\* corpus order, the more confident one first, followed by a less similar one
C2_Witness ==
    /\ pc = "adv_done"
    /\ Len(result) = 3
    /\ RatEq(result[1].similarity, result[2].similarity)
    /\ result[1].confidence > result[2].confidence
    /\ result[1].issue = issues[2] /\ result[2].issue = issues[1]
    /\ RatLess(result[3].similarity, result[2].similarity)

\* C3: find_similar_issues returns exactly min(top_k, number of issues with
\* non-zero overlap) results, hence at most top_k, and the issues left out
\* never rank strictly above a returned one: every issue of the corpus whose
\* key is strictly greater than a returned issue's key is itself returned.
\* (advanced_app ranks by (similarity, confidence) over title, body, labels
\* and tech tags; cloud_app by similarity over title and body.)
C3_TopKKeepsTheBest ==
    /\ pc = "adv_done" =>
          LET qw == QueryTokens(query)
              overlapping == {k \in Idx(issues) :
                  qw \cap (TitleBodyWords(issues[k])
                      \cup LabelWords(issues[k]) \cup TechTags(issues[k])) # {}}
              keys == [k \in Idx(issues) |-> AdvKey(issues[k])]
          IN  /\ Len(result) <= top_k
              /\ Len(result) = Min(top_k, Cardinality(overlapping))
              /\ \A p \in Idx(result) :
                    /\ Cardinality({q \in Idx(result) : result[q].issue = result[p].issue})
                         <= Cardinality({k \in overlapping : issues[k] = result[p].issue})
                    /\ Cardinality({k \in overlapping : KeyLess(result[p], keys[k])})
                         = Cardinality({q \in Idx(result) : KeyLess(result[p], result[q])})
    /\ pc = "cloud_done" =>
          LET qw == QueryTokens(query)
              overlapping == {k \in Idx(issues) : qw \cap TitleBodyWords(issues[k]) # {}}
              keys == [k \in Idx(issues) |-> CloudKeyTable[query][issues[k]]]
          IN  /\ Len(result) <= top_k
              /\ Len(result) = Min(top_k, Cardinality(overlapping))
              /\ \A p \in Idx(result) :
                    /\ Cardinality({q \in Idx(result) : result[q].issue = result[p].issue})
                         <= Cardinality({k \in overlapping : issues[k] = result[p].issue})
                    /\ Cardinality({k \in overlapping :
                                       CloudLess(result[p], keys[k][1])})
                         = Cardinality({q \in Idx(result) : CloudLess(result[p], result[q])})

\* a corpus with three overlapping issues was cut to top_k = 2, and the one
\* left out ranks strictly below both returned ones
C3_Witness ==
    /\ pc = "adv_done"
    /\ top_k = 2
    /\ Len(similarities) = 3
    /\ Len(result) = 2
    /\ KeyLess(similarities[3], result[2])

\* C4 as stated: every returned issue has a query token among its tech tags
\* or among the words of its title or body.
C4_TokenInTechTitleOrBody ==
    pc = "adv_done" =>
        LET qw == QueryTokens(query)
        IN  \A p \in Idx(result) :
                qw \cap (TechTags(result[p].issue)
                          \cup TitleBodyWords(result[p].issue)) # {}

\* C4 amended: every returned issue has a query token among its tech tags or
\* among the words of its title, its body or its labels.
C4_TokenInTechTitleBodyOrLabels ==
    pc = "adv_done" =>
        LET qw == QueryTokens(query)
        IN  \A p \in Idx(result) :
                qw \cap (TechTags(result[p].issue)
                          \cup TitleBodyWords(result[p].issue)
                          \cup LabelWords(result[p].issue)) # {}

\* an issue was returned that shares a query token with its labels only,
\* next to one that shares none and was left out
C4_Witness ==
    /\ pc = "adv_done"
    /\ \E p \in Idx(result) :
          /\ QueryTokens(query) \cap LabelWords(result[p].issue) # {}
          /\ QueryTokens(query) \cap (TechTags(result[p].issue)
                                 \cup TitleBodyWords(result[p].issue)) = {}
    /\ \E k \in Idx(issues) : WeightedOverlap(query, issues[k]) = 0
    /\ Len(result) < top_k

\* C5: an issue is among the candidates of find_similar_issues exactly when
\* its weighted overlap with the query is greater than 0, and every reported
\* similarity s satisfies 0 < s <= 1.
C5_CandidatesIffOverlap ==
    pc = "adv_done" =>
        LET overlap == [k \in Idx(issues) |-> WeightedOverlap(query, issues[k])]
        IN  /\ Len(similarities) = Cardinality({k \in Idx(issues) : overlap[k] > 0})
            /\ \A p \in Idx(similarities) :
                  /\ \E k \in Idx(issues) :
                        issues[k] = similarities[p].issue /\ overlap[k] > 0
                  /\ RatLess(RatZero, similarities[p].similarity)
                  /\ ~RatLess(RatOne, similarities[p].similarity)
            /\ \A k \in Idx(issues) :
                  overlap[k] > 0
                      => \E p \in Idx(similarities) : similarities[p].issue = issues[k]
            /\ \A p \in Idx(result) :
                  /\ RatLess(RatZero, result[p].similarity)
                  /\ ~RatLess(RatOne, result[p].similarity)

\* a candidate whose weighted overlap exceeds 4 per query word is reported
\* with similarity 1, one with a smaller overlap with a similarity below 1,
\* and an issue without overlap is no candidate
C5_Witness ==
    /\ pc = "adv_done"
    /\ \E p \in Idx(similarities) :
          /\ WeightedOverlap(query, similarities[p].issue)
               > TechWeight * Cardinality(QueryTokens(query))
          /\ RatEq(similarities[p].similarity, RatOne)
    /\ \E p \in Idx(similarities) : RatLess(similarities[p].similarity, RatOne)
    /\ \E k \in Idx(issues) : WeightedOverlap(query, issues[k]) = 0

\* the weight one query word collects from a processed issue
WordWeightIn(w, iss) ==
    WordWeight(w, TitleWords(iss), BodyWords(iss), LabelWords(iss),
               TechTags(iss))

\* min(1, weighted overlap / (4 |Q|)) as the claim states it
StatedSimilarity(q, iss) ==
    LET overlap == WeightedOverlap(q, iss)
        norm    == TechWeight * Cardinality(QueryTokens(q))
    IN  IF overlap > norm THEN RatOne ELSE Ratio(overlap, norm)

\* C18: calculate_similarity equals min(1, (3|Q n title| + |Q n body| +
\* 2|Q n labels| + 4|Q n tech|) / (4|Q|)), and no query word contributes
\* more than the 4 it is normalised by, so that the ratio never exceeds 1
\* before the clamp.
C18_SimilarityFormulaClampIdle ==
    pc = "adv_done" =>
        \A p \in Idx(similarities) :
            LET iss == similarities[p].issue
            IN  /\ RatEq(similarities[p].similarity, StatedSimilarity(query, iss))
                /\ \A w \in QueryTokens(query) : WordWeightIn(w, iss) <= TechWeight
                /\ WeightedOverlap(query, iss)
                      <= TechWeight * Cardinality(QueryTokens(query))

\* C18 (amended): calculate_similarity equals min(1, (3|Q n title| +
\* |Q n body| + 2|Q n labels| + 4|Q n tech|) / (4|Q|)); a query word found
\* in title, body, labels and tech tags contributes up to 3+1+2+4 = 10, so
\* the ratio can exceed 1 and the clamp is what keeps the result at 1.
C18_SimilarityFormula ==
    pc = "adv_done" =>
        \A p \in Idx(similarities) :
            LET iss == similarities[p].issue
            IN  /\ RatEq(similarities[p].similarity, StatedSimilarity(query, iss))
                /\ \A w \in QueryTokens(query) :
                      WordWeightIn(w, iss)
                          <= TitleWeight + BodyWeight + LabelWeight + TechWeight
                /\ WeightedOverlap(query, iss)
                      > TechWeight * Cardinality(QueryTokens(query))
                          => RatEq(similarities[p].similarity, RatOne)

\* a candidate to which one query word contributes more than 4 and whose
\* similarity the clamp cut to 1, next to a candidate with a similarity
\* below 1
C18_Witness ==
    /\ pc = "adv_done"
    /\ \E p \in Idx(similarities) :
          /\ \E w \in QueryTokens(query) :
                WordWeightIn(w, similarities[p].issue) > TechWeight
          /\ RatLess(RatOne, calculate_similarity_unclamped(query, similarities[p].issue))
          /\ RatEq(similarities[p].similarity, RatOne)
    /\ \E p \in Idx(similarities) :
          /\ RatLess(similarities[p].similarity, RatOne)
          /\ Cardinality(QueryTokens(query)) > 1

\* the confidence as the claim states it, in hundredths
StatedConfidence(iss) ==
      (IF iss.has_solution THEN 50 ELSE 0)
    + (IF iss.comments_count * 2 < 30 THEN iss.comments_count * 2 ELSE 30)
    + (IF iss.is_recent THEN 10 ELSE 0)
    + (IF iss.engagement_score < 10 THEN iss.engagement_score ELSE 10)

\* C19: the confidence reported with a result is 0.5 if the issue has a
\* solution, plus min(0.02 * comments_count, 0.3), plus 0.1 if it is recent,
\* plus min(0.01 * engagement_score, 0.1); it lies in [0, 1] and is a
\* function of the issue alone, whatever the query.
C19_ConfidenceFormula ==
    pc = "adv_done" =>
        /\ \A p \in Idx(similarities) :
              /\ similarities[p].confidence = StatedConfidence(similarities[p].issue)
              /\ 0 <= similarities[p].confidence
              /\ similarities[p].confidence <= 100
        /\ \A p \in Idx(result) :
              result[p].confidence = StatedConfidence(result[p].issue)

\* the results hold an issue whose comment and engagement terms are both
\* capped and an unsolved recent issue with few comments
C19_Witness ==
    /\ pc = "adv_done"
    /\ \E p \in Idx(result) :
          /\ result[p].issue.comments_count * 2 > 30
          /\ result[p].issue.engagement_score > 10
          /\ result[p].issue.has_solution
    /\ \E p \in Idx(result) :
          /\ ~result[p].issue.has_solution
          /\ result[p].issue.is_recent
          /\ result[p].issue.comments_count * 2 < 30

\* what the two matchers return for a query on the corpus and limit of the run
AdvancedResult(q) ==
    IF strip(q) = "" THEN <<>>
    ELSE SliceTo(SortCandidates(Candidates(q, issues)), top_k)

CloudResult(q) ==
    IF strip(q) = "" THEN <<>>
    ELSE SliceTo(cloud_sort(cloud_candidates(q, issues)), top_k)

\* C20: find_similar_issues returns the empty sequence when the query has no
\* token (empty or whitespace only), for every corpus and limit, and no
\* similarity is ever a division by zero; a query with the same token set
\* (a word repeated, letters in another case) gets the same result.
C20_EmptyQueryAndTokenSet ==
    pc \in {"adv_done", "cloud_done"} =>
        /\ raised = None
        /\ QueryTokens(query) = {} => result = <<>>
        /\ \A p \in Idx(result) : result[p].similarity.den > 0
        /\ \A q \in QueryPool :
              (q # query /\ QueryTokens(q) = QueryTokens(query)) =>
                  result = IF pc = "adv_done" THEN AdvancedResult(q) ELSE CloudResult(q)

\* a query that repeats a word in two letter cases has returned results
C20_Witness ==
    /\ pc = "adv_done"
    /\ Len(split(query)) > Cardinality(QueryTokens(query))
    /\ \E q \in QueryPool : q # query /\ QueryTokens(q) = QueryTokens(query)
    /\ result # <<>>

\* a whitespace-only query has returned nothing on a non-empty corpus
C20_EmptyWitness ==
    /\ pc = "adv_done"
    /\ query # "" /\ QueryTokens(query) = {}
    /\ issues # <<>> /\ top_k > 0
    /\ result = <<>>

(***************************************************************************)
(* TiDBDataCollector.generate_analytics.  pd.DataFrame(records) has the    *)
(* records' keys as columns and no column at all for an empty list;        *)
(* df[name] raises KeyError when name is no column.  The dict literal is   *)
(* evaluated entry by entry, so the first failing entry ends the call.     *)
(* The temporal and community groups are kept as their guards only.        *)
(***************************************************************************)
MaxAggIssues == 3
TechUsageTop == 15
TechCombinationsTop == 10

DataFrameColumns(records) ==
    IF Len(records) = 0 THEN {} ELSE DOMAIN records[1]

\* the number of rows of df with the given value in the given column
CountWhere(records, col, val) ==
    Cardinality({k \in 1..Len(records) : records[k][col] = val})

\* the sum of a column
RECURSIVE SumField(_, _, _)
SumField(records, col, k) ==
    IF k > Len(records) THEN 0 ELSE records[k][col] + SumField(records, col, k + 1)

\* Counter: the keys in first-counted order, each with its count
RECURSIVE CountInOrder(_, _, _)
CountInOrder(items, k, acc) ==
    IF k > Len(items) THEN acc
    ELSE IF \E j \in 1..Len(acc) : acc[j].key = items[k]
         THEN CountInOrder(items, k + 1,
                  [j \in 1..Len(acc) |->
                      IF acc[j].key = items[k]
                      THEN [acc[j] EXCEPT !.count = @ + 1] ELSE acc[j]])
         ELSE CountInOrder(items, k + 1, Append(acc, [key |-> items[k], count |-> 1]))

CountLess(a, b) == a.count < b.count

\* Counter.most_common(n): by count descending, equal counts in first-counted
\* order
most_common(items, n) ==
    LET counts == CountInOrder(items, 1, <<>>)
    IN  SliceTo(SortDesc(counts, [a \in 1..Len(counts) |->
                    [b \in 1..Len(counts) |-> CountLess(counts[a], counts[b])]]), n)

RECURSIVE Flatten(_)
Flatten(seqs) == IF Len(seqs) = 0 THEN <<>> ELSE Head(seqs) \o Flatten(Tail(seqs))

\* the counts left in first-counted order
analyze_tech_usage_unsorted(records) ==
    SliceTo(CountInOrder(Flatten([k \in 1..Len(records) |-> records[k].tech_context]),
                         1, <<>>),
            TechUsageTop)

analyze_tech_usage(records) ==
    most_common(Flatten([k \in 1..Len(records) |-> records[k].tech_context]),
                TechUsageTop)

\* the order of Python's str comparison, for the lower-case tag names
LetterIdx(c) == CHOOSE k \in AlphaIdx : CharAt(LowerAlpha, k) = c
RECURSIVE StrLess(_, _)
StrLess(a, b) ==
    IF Len(b) = 0 THEN FALSE
    ELSE IF Len(a) = 0 THEN TRUE
    ELSE IF CharAt(a, 1) = CharAt(b, 1)
         THEN StrLess(SubSeq(a, 2, Len(a)), SubSeq(b, 2, Len(b)))
         ELSE LetterIdx(CharAt(a, 1)) < LetterIdx(CharAt(b, 1))

\* sorted(seq): ascending (stable)
RECURSIVE SortedFrom(_, _, _)
SortedFrom(seq, k, acc) ==
    IF k > Len(seq) THEN acc
    ELSE LET x   == seq[k]
             pos == Cardinality({j \in 1..Len(acc) : ~StrLess(x, acc[j])})
         IN  SortedFrom(seq, k + 1,
                 SubSeq(acc, 1, pos) \o <<x>> \o SubSeq(acc, pos + 1, Len(acc)))

sorted(seq) == SortedFrom(seq, 1, <<>>)

\* itertools.combinations(seq, 2): the pairs of positions a < b, in order
RECURSIVE PairsFrom(_, _, _)
PairsFrom(seq, a, b) ==
    IF a >= Len(seq) THEN <<>>
    ELSE IF b > Len(seq) THEN PairsFrom(seq, a + 1, a + 2)
    ELSE <<<<seq[a], seq[b]>>>> \o PairsFrom(seq, a, b + 1)

\* the pairs taken from the tags as listed, not sorted
analyze_tech_combinations_unsorted(records) ==
    LET combos == Flatten([k \in 1..Len(records) |->
                     IF Len(records[k].tech_context) > 1
                     THEN PairsFrom(records[k].tech_context, 1, 2)
                     ELSE <<>>])
        top == most_common(combos, TechCombinationsTop)
    IN  [k \in 1..Len(top) |-> [technologies |-> top[k].key, count |-> top[k].count]]

analyze_tech_combinations(records) ==
    LET combos == Flatten([k \in 1..Len(records) |->
                     IF Len(records[k].tech_context) > 1
                     THEN PairsFrom(sorted(records[k].tech_context), 1, 2)
                     ELSE <<>>])
        top == most_common(combos, TechCombinationsTop)
    IN  [k \in 1..Len(top) |-> [technologies |-> top[k].key, count |-> top[k].count]]

analyze_monthly_trends(records) ==
    IF Len(records) = 0 THEN "empty" ELSE "by_month"

analyze_resolution_times(records) ==
    IF CountWhere(records, "state", "closed") = 0 THEN "empty" ELSE "stats"

\* the value generate_analytics returns when nothing raises
analytics_of(records) ==
    LET cats == {records[k].category : k \in 1..Len(records)}
    IN  [summary |->
            [total_issues   |-> Len(records),
             open_issues    |-> CountWhere(records, "state", "open"),
             closed_issues  |-> CountWhere(records, "state", "closed"),
             solution_rate  |-> IF Len(records) > 0
                                THEN Ratio(CountWhere(records, "has_solution", TRUE),
                                           Len(records))
                                ELSE RatZero,
             recent_issues  |-> CountWhere(records, "is_recent", TRUE),
             avg_comments   |-> Ratio(SumField(records, "comments_count", 1),
                                      Len(records)),
             avg_engagement |-> Ratio(SumField(records, "engagement_score", 1),
                                      Len(records))],
         categories |->
            [distribution |->
                [c \in cats |-> CountWhere(records, "category", c)]],
         technology |->
            [usage        |-> analyze_tech_usage(records),
             combinations |-> analyze_tech_combinations(records)],
         temporal |->
            [monthly_trends   |-> analyze_monthly_trends(records),
             resolution_times |-> analyze_resolution_times(records)],
         community |-> "computed"]

\* the exception generate_analytics ends with, or None: the first column
\* access, df['state'], fails on a frame without columns
generate_analytics_raises(records) ==
    IF "state" \notin DataFrameColumns(records) THEN "KeyError" ELSE None

\* the processed issues of the analytics runs: those of the matcher and two
\* with several technologies at once (two tags; five tags, hence ten pairs)
AggRawPool ==
    { [id |-> 6, title |-> "Docker image pull fails on Kubernetes",
       body |-> None, state |-> "open", comments |-> 1,
       labels |-> <<>>, assignees |-> <<>>,
       milestone |-> None, created_at |-> Fresh],
      [id |-> 7, title |-> "Grafana metrics for MySQL on AWS",
       body |-> "docker kubernetes", state |-> "closed", comments |-> 2,
       labels |-> <<>>, assignees |-> <<>>,
       milestone |-> None, created_at |-> Old] }

AggPool == ProcessedPool \cup {process_issue(r, Clock0, 0) : r \in AggRawPool}

AggInit ==
    /\ pc = "agg_start"
    /\ processed_issues \in SeqsUpTo(AggPool, MaxAggIssues)
    /\ analytics = None
    /\ raised = None
    /\ issues = <<>> /\ i = 0 /\ clock = 0 /\ tzOffset = 0
    /\ OneIdle /\ SimIdle /\ ColIdle /\ LoadIdle

\* generate_analytics(processed_issues)
GenerateAnalytics ==
    /\ pc = "agg_start"
    /\ raised' = generate_analytics_raises(processed_issues)
    /\ analytics' = IF raised' = None THEN analytics_of(processed_issues) ELSE None
    /\ pc' = "agg_done"
    /\ UNCHANGED <<procVars, oneVars, simVars, colVars, loadVars>>

AggNext == GenerateAnalytics

SpecAgg == AggInit /\ [][AggNext]_vars

\* C6: generate_analytics called on an empty issue collection does not
\* raise; it returns a snapshot with total_issues = 0 and a solution_rate
\* of 0.
C6_EmptyInputReturnsSnapshot ==
    (pc = "agg_done" /\ processed_issues = <<>>) =>
        /\ raised = None
        /\ analytics.summary.total_issues = 0
        /\ RatEq(analytics.summary.solution_rate, RatZero)

\* the tags of the k-th processed issue, and the tags of the whole collection
TagsAt(k) == Range(processed_issues[k].tech_context)
AllTags == UNION {TagsAt(k) : k \in 1..Len(processed_issues)}

\* the number of issues whose tech_context contains the tag
TagCount(t) == Cardinality({k \in 1..Len(processed_issues) : t \in TagsAt(k)})

\* the place of a tag in the fixed enumeration of tech_patterns
TagIndex(t) == CHOOSE n \in 1..Len(tech_patterns) : tech_patterns[n].tech = t

\* the place at which a tag is first met when the issues are read in order,
\* each issue's tags in the order listed
FirstSeen(t) ==
    LET k == CHOOSE n \in 1..Len(processed_issues) :
                 /\ t \in TagsAt(n)
                 /\ \A m \in 1..(n - 1) : t \notin TagsAt(m)
        j == CHOOSE n \in 1..Len(processed_issues[k].tech_context) :
                 processed_issues[k].tech_context[n] = t
    IN  k * (Len(tech_patterns) + 1) + j

\* the usage lists every tag of the collection once, with its frequency, in
\* descending count, at most 15 entries
UsageCounts(usage) ==
    /\ Len(usage) <= 15
    /\ Len(usage) = Min(15, Cardinality(AllTags))
    /\ \A e \in 1..Len(usage) :
          /\ usage[e].key \in AllTags
          /\ usage[e].count = TagCount(usage[e].key)
          /\ \A f \in 1..Len(usage) : usage[f].key = usage[e].key => f = e
    /\ \A e \in 1..(Len(usage) - 1) : usage[e].count >= usage[e + 1].count

\* C24: analyze_tech_usage returns the per-tag frequency counts in descending
\* count, at most 15 entries, tags of equal count in the fixed enumeration
\* order of the tag table (kubernetes, docker, mysql, cloud, ...) whatever the
\* order of the issues.
C24_UsageTiesByTagEnumeration ==
    (pc = "agg_done" /\ raised = None) =>
        LET usage == analytics.technology.usage
        IN  /\ UsageCounts(usage)
            /\ \A e \in 1..(Len(usage) - 1) :
                  usage[e].count = usage[e + 1].count
                      => TagIndex(usage[e].key) < TagIndex(usage[e + 1].key)

\* C24 (amended): analyze_tech_usage returns the per-tag frequency counts in
\* descending count, at most 15 entries, tags of equal count in the order in
\* which they are first met in the collection (issue by issue, each issue's
\* tags in the enumeration order of the tag table).
C24_UsageTiesByFirstSeen ==
    (pc = "agg_done" /\ raised = None) =>
        LET usage == analytics.technology.usage
        IN  /\ UsageCounts(usage)
            /\ \A e \in 1..(Len(usage) - 1) :
                  usage[e].count = usage[e + 1].count
                      => FirstSeen(usage[e].key) < FirstSeen(usage[e + 1].key)

\* the usage of a collection whose most frequent tag was not the first one
\* met, followed by two tags met once each, the one met earlier first although
\* it comes later in the tag table
C24_Witness ==
    /\ pc = "agg_done" /\ raised = None
    /\ LET usage == analytics.technology.usage
       IN  /\ Len(usage) = 3
           /\ usage[1].count = 2
           /\ FirstSeen(usage[1].key) > FirstSeen(usage[2].key)
           /\ usage[2].count = usage[3].count
           /\ TagIndex(usage[2].key) > TagIndex(usage[3].key)

\* the number of issues whose tech_context contains both tags
PairCount(a, b) ==
    Cardinality({k \in 1..Len(processed_issues) : a \in TagsAt(k) /\ b \in TagsAt(k)})

\* the pairs of tags, in lexicographic order, that some issue holds together
AllPairs ==
    {p \in AllTags \X AllTags : StrLess(p[1], p[2]) /\ PairCount(p[1], p[2]) > 0}

\* the pairs the issues contribute: n * (n - 1) / 2 for an issue with n tags
RECURSIVE PairsContributed(_)
PairsContributed(k) ==
    IF k = 0 THEN 0
    ELSE LET n == Len(processed_issues[k].tech_context)
         IN  (n * (n - 1)) \div 2 + PairsContributed(k - 1)

RECURSIVE CountSum(_, _)
CountSum(combos, k) ==
    IF k = 0 THEN 0 ELSE combos[k].count + CountSum(combos, k - 1)

\* C25: analyze_tech_combinations reports pairs of tags in lexicographic
\* order, each unordered pair at most once, with the number of issues holding
\* both tags; an issue with n tags contributes n*(n-1)/2 pairs and one with
\* fewer than 2 tags none; the result is the 10 most frequent pairs (or all,
\* if fewer) in descending count.
C25_PairsCountedOnce ==
    (pc = "agg_done" /\ raised = None) =>
        LET combos == analytics.technology.combinations
        IN  /\ Len(combos) = Min(10, Cardinality(AllPairs))
            /\ \A e \in 1..Len(combos) :
                  LET a == combos[e].technologies[1]
                      b == combos[e].technologies[2]
                  IN  /\ Len(combos[e].technologies) = 2
                      /\ StrLess(a, b)
                      /\ combos[e].count = PairCount(a, b)
                      /\ combos[e].count > 0
                      /\ \A f \in 1..Len(combos) :
                            Range(combos[f].technologies) = {a, b} => f = e
                      /\ \A p \in AllPairs :
                            PairCount(p[1], p[2]) > combos[e].count
                                => \E f \in 1..Len(combos) : combos[f].technologies = p
            /\ \A e \in 1..(Len(combos) - 1) : combos[e].count >= combos[e + 1].count
            /\ Cardinality(AllPairs) <= 10
                  => CountSum(combos, Len(combos))
                        = PairsContributed(Len(processed_issues))

\* a collection whose issues hold twelve different pairs, of which the ten
\* most frequent are reported, the pairs met in two issues first
C25_Witness ==
    /\ pc = "agg_done" /\ raised = None
    /\ Cardinality(AllPairs) = 12
    /\ \E k \in 1..Len(processed_issues) : Len(processed_issues[k].tech_context) = 3
    /\ LET combos == analytics.technology.combinations
       IN  /\ Len(combos) = 10
           /\ combos[1].count = 2
           /\ combos[10].count = 1

\* a collection of fewer than ten pairs, with an issue of three tags (three
\* pairs), an issue of two tags (one pair) and an issue of one tag (none)
C25_SmallWitness ==
    /\ pc = "agg_done" /\ raised = None
    /\ \E k \in 1..Len(processed_issues) : Len(processed_issues[k].tech_context) = 3
    /\ \E k \in 1..Len(processed_issues) : Len(processed_issues[k].tech_context) = 2
    /\ \E k \in 1..Len(processed_issues) : Len(processed_issues[k].tech_context) = 1
    /\ Len(analytics.technology.combinations) = 4

(***************************************************************************)
(* TiDBDataCollector.collect_issues, data_collector.main and               *)
(* cloud_app.collect_live_data: the fetch.  The endpoint serves `remote`,  *)
(* the repository's issues and pull requests in the requested order; a     *)
(* record carries the pull-request marker when pull_request is TRUE.  A    *)
(* GET either fails (RequestException) or answers with one page.           *)
(***************************************************************************)
per_page == 100
DefaultMaxIssues == 200
MainMaxIssues == 150
CloudPerPage == 50

\* the page size asked for without the limit of 100
request_params_unclamped(n_issues, max, pg) ==
    [per_page |-> max - n_issues, page |-> pg]

\* the paging parameters of one request
request_params(n_issues, max, pg) ==
    [per_page |-> Min(per_page, max - n_issues), page |-> pg]

\* response.json(): the page of the listing the endpoint answers with
github_page(records, params) ==
    LET first == (params.page - 1) * params.per_page + 1
        last  == Min(params.page * params.per_page, Len(records))
    IN  IF first > last THEN <<>> ELSE SubSeq(records, first, last)

\* a filter that keeps every record
filter_pull_requests_keep_all(batch) == batch

\* [issue for issue in batch if 'pull_request' not in issue]
filter_pull_requests(batch) ==
    SelectInOrder(batch, [k \in 1..Len(batch) |-> ~batch[k].pull_request], 1)

\* a loop that goes on after a failed request
collect_continues_after_error(ok, batch) ==
    ~ok \/ (batch # <<>> /\ Len(batch) >= per_page)

\* whether the while loop reaches its next test: no exception, no empty
\* batch, no short batch
collect_continues(ok, batch) ==
    ok /\ batch # <<>> /\ Len(batch) >= per_page

\* cloud_app.get_sample_data
get_sample_data ==
    << [id |-> 1, title |-> "TiDB connection timeout in Kubernetes cluster",
        body |-> "Getting connection timeouts when running TiDB in k8s environment with high load",
        state |-> "closed", labels |-> <<"type/bug", "area/tikv", "severity/major">>,
        comments |-> 12, created_at |-> "2024-01-15T10:00:00Z", is_solved |-> TRUE,
        category |-> "bug", tech_context |-> <<"kubernetes", "performance">>],
       [id |-> 2, title |-> "Slow query performance with large dataset",
        body |-> "Queries taking too long on tables with millions of rows, need optimization tips",
        state |-> "open", labels |-> <<"type/question", "area/sql", "area/planner">>,
        comments |-> 8, created_at |-> "2024-01-14T15:30:00Z", is_solved |-> FALSE,
        category |-> "performance", tech_context |-> <<"performance", "mysql">>],
       [id |-> 3, title |-> "Docker deployment configuration help",
        body |-> "Need help configuring TiDB cluster in Docker environment for production",
        state |-> "closed", labels |-> <<"type/question", "area/deployment">>,
        comments |-> 15, created_at |-> "2024-01-13T09:20:00Z", is_solved |-> TRUE,
        category |-> "question", tech_context |-> <<"docker", "cloud">>],
       [id |-> 4, title |-> "Migration from MySQL to TiDB best practices",
        body |-> "Looking for guidance on migrating large MySQL database to TiDB",
        state |-> "closed", labels |-> <<"type/question", "area/migration">>,
        comments |-> 20, created_at |-> "2024-01-12T14:45:00Z", is_solved |-> TRUE,
        category |-> "migration", tech_context |-> <<"mysql", "cloud">>],
       [id |-> 5, title |-> "TiFlash replica sync issue",
        body |-> "TiFlash replicas not syncing properly with TiKV in our cluster",
        state |-> "open", labels |-> <<"type/bug", "area/tiflash">>,
        comments |-> 6, created_at |-> "2024-01-11T11:30:00Z", is_solved |-> FALSE,
        category |-> "bug", tech_context |-> <<"tiflash", "performance">>],
       [id |-> 6, title |-> "Prometheus monitoring setup for TiDB",
        body |-> "How to properly configure Prometheus monitoring for TiDB cluster",
        state |-> "closed", labels |-> <<"type/question", "area/monitoring">>,
        comments |-> 10, created_at |-> "2024-01-10T16:20:00Z", is_solved |-> TRUE,
        category |-> "monitoring", tech_context |-> <<"monitoring", "kubernetes">>],
       [id |-> 7, title |-> "AWS EKS deployment optimization",
        body |-> "Optimizing TiDB deployment on AWS EKS for better performance",
        state |-> "open", labels |-> <<"type/enhancement", "area/deployment">>,
        comments |-> 4, created_at |-> "2024-01-09T13:15:00Z", is_solved |-> FALSE,
        category |-> "enhancement",
        tech_context |-> <<"cloud", "kubernetes", "performance">>],
       [id |-> 8, title |-> "Backup and restore with BR tool",
        body |-> "Questions about using BR tool for backup and restore operations",
        state |-> "closed", labels |-> <<"type/question", "area/br">>,
        comments |-> 7, created_at |-> "2024-01-08T10:00:00Z", is_solved |-> TRUE,
        category |-> "question", tech_context |-> <<"backup", "cloud">>] >>

(***************************************************************************)
(* The listings the endpoint may serve: n records numbered in served       *)
(* order, every m-th one a pull request (m = 0: none), their other fields  *)
(* taken in turn from the raw issues of the runs.                          *)
(***************************************************************************)
RemoteLens == {0, 1, 3, 99, 100, 101, 150, 199, 200, 201, 250, 301}
PullRequestEvery == {0, 1, 3}
MaxIssuesPool == {0, 1, 3, per_page, MainMaxIssues, DefaultMaxIssues}
\* the largest listing a run of main is given
MaxMainRemote == 3

RemoteRecord(k, m) ==
    LET base == CHOOSE r \in RawPool : r.id = ((k - 1) % Cardinality(RawPool)) + 1
    IN  [id |-> k, pull_request |-> (m > 0 /\ k % m = 0),
         title |-> base.title, body |-> base.body, state |-> base.state,
         comments |-> base.comments, labels |-> base.labels,
         assignees |-> base.assignees, milestone |-> base.milestone,
         created_at |-> base.created_at]

RemoteOf(n, m) == [k \in 1..n |-> RemoteRecord(k, m)]

CollectInit ==
    /\ entry \in {"collect_issues", "main", "cloud"}
    /\ pc = IF entry = "cloud" THEN "cloud_fetch" ELSE "collect_loop"
    /\ remote \in {RemoteOf(n, m) :
                       n \in IF entry = "main"
                             THEN {x \in RemoteLens : x <= MaxMainRemote}
                             ELSE RemoteLens,
                       m \in PullRequestEvery}
    /\ max_issues \in IF entry = "collect_issues" THEN MaxIssuesPool
                      ELSE IF entry = "main" THEN {MainMaxIssues} ELSE {0}
    /\ issues = <<>>
    /\ page = 1
    /\ requests = <<>>
    /\ raw_issues = None /\ live_data = None /\ saved = None
    /\ processed_issues = <<>> /\ i = 0 /\ clock = Clock0 /\ tzOffset = 0
    /\ OneIdle /\ SimIdle /\ AggIdle /\ LoadIdle

\* one iteration of `while len(issues) < max_issues`: one GET
CollectRequest ==
    /\ pc = "collect_loop"
    /\ Len(issues) < max_issues
    /\ \E ok \in BOOLEAN :
          LET params == request_params(Len(issues), max_issues, page)
              batch  == IF ok THEN github_page(remote, params) ELSE <<>>
              got    == ok /\ batch # <<>>
          IN  /\ requests' = Append(requests,
                     [page |-> params.page, per_page |-> params.per_page, ok |-> ok])
              /\ issues' = IF got THEN issues \o filter_pull_requests(batch) ELSE issues
              /\ page' = IF got THEN page + 1 ELSE page
              /\ pc' = IF collect_continues(ok, batch) THEN "collect_loop"
                       ELSE "collect_break"
    /\ UNCHANGED <<entry, remote, max_issues, raw_issues, live_data, saved,
                   processed_issues, i, clock, tzOffset,
                   oneVars, simVars, aggVars, loadVars>>

\* the loop has ended: return issues[:max_issues]
CollectReturn ==
    /\ \/ pc = "collect_loop" /\ Len(issues) >= max_issues
       \/ pc = "collect_break"
    /\ raw_issues' = SliceTo(issues, max_issues)
    /\ pc' = IF entry = "main" THEN "main_check" ELSE "collect_done"
    /\ UNCHANGED <<entry, remote, max_issues, page, requests, live_data, saved,
                   procVars, oneVars, simVars, aggVars, loadVars>>

\* main: `if not raw_issues:` print the message and return
MainNoIssues ==
    /\ pc = "main_check"
    /\ raw_issues = <<>>
    /\ pc' = "main_no_issues"
    /\ UNCHANGED <<colVars, procVars, oneVars, simVars, aggVars, loadVars>>

\* main: process_issues, generate_analytics, save_data
MainPipeline ==
    /\ pc = "main_check"
    /\ raw_issues # <<>>
    /\ processed_issues' =
          [k \in 1..Len(raw_issues) |-> process_issue(raw_issues[k], clock, tzOffset)]
    /\ raised' = generate_analytics_raises(processed_issues')
    /\ analytics' = IF raised' = None THEN analytics_of(processed_issues') ELSE None
    /\ saved' = IF raised' = None
                THEN [tidb_issues |-> processed_issues', analytics |-> analytics']
                ELSE None
    /\ pc' = IF raised' = None THEN "main_done" ELSE "main_raised"
    /\ UNCHANGED <<entry, remote, max_issues, page, requests, raw_issues, live_data,
                   issues, i, clock, tzOffset, oneVars, simVars, loadVars>>

\* cloud_app.collect_live_data: one GET of the first page, or the sample data
CollectLiveData ==
    /\ pc = "cloud_fetch"
    /\ \E ok \in BOOLEAN :
          /\ requests' = Append(requests,
                 [page |-> 1, per_page |-> CloudPerPage, ok |-> ok])
          /\ IF ok
             THEN LET batch == github_page(remote, [per_page |-> CloudPerPage, page |-> 1])
                      kept  == filter_pull_requests(batch)
                  IN  /\ issues' = kept
                      /\ processed_issues' =
                            [k \in 1..Len(kept) |-> cloud_process_issue(kept[k])]
                      /\ live_data' = processed_issues'
             ELSE /\ live_data' = get_sample_data
                  /\ UNCHANGED <<issues, processed_issues>>
    /\ pc' = "cloud_done"
    /\ UNCHANGED <<entry, remote, max_issues, page, raw_issues, saved,
                   i, clock, tzOffset, oneVars, simVars, aggVars, loadVars>>

CollectNext ==
    CollectRequest \/ CollectReturn \/ MainNoIssues \/ MainPipeline \/ CollectLiveData

SpecCollect == CollectInit /\ [][CollectNext]_vars

\* the last request failed
FetchFailed == requests # <<>> /\ ~requests[Len(requests)].ok

\* the records of a batch that carry no pull-request marker, in order
NonPullRequests(batch) ==
    SelectInOrder(batch, [k \in 1..Len(batch) |-> batch[k].pull_request = FALSE], 1)

\* the non-pull-request records of the pages answered so far, in the order
\* received
Received ==
    Flatten([k \in 1..Len(requests) |->
                IF requests[k].ok
                THEN NonPullRequests(github_page(remote, requests[k]))
                ELSE <<>>])

\* the first n records of a sequence, n >= 0
FirstN(seq, n) == SubSeq(seq, 1, Min(Len(seq), n))

\* C11: in collect_issues a failed page request ends collection at once: the
\* failed page is not retried and no later page is requested; the call does
\* not raise and returns exactly the issues of the pages fetched before the
\* failure, truncated to max_issues; no page number is requested twice.
C11_FailedPageEndsCollection ==
    entry \in {"collect_issues", "main"} =>
        /\ \A k \in 1..(Len(requests) - 1) : requests[k].ok
        /\ \A j, k \in 1..Len(requests) : j # k => requests[j].page # requests[k].page
        /\ FetchFailed => pc # "collect_loop"
        /\ (FetchFailed /\ pc # "collect_break") =>
              /\ raw_issues = FirstN(Received, max_issues)
              /\ raised = None

\* collect_issues has returned a non-empty list after its request of a later
\* page failed
C11_Witness ==
    /\ entry = "collect_issues"
    /\ pc = "collect_done"
    /\ Len(requests) >= 2
    /\ FetchFailed
    /\ raw_issues # <<>>

\* C12: a fetch failure is not fatal to the run, in data_collector.main and
\* in cloud_app.collect_live_data alike: when the fetch fails, the run goes
\* on with the built-in sample dataset, so processing and analytics execute
\* on a non-empty collection.
C12_FetchFailureFallsBack ==
    /\ (entry = "cloud" /\ pc = "cloud_done" /\ FetchFailed) =>
          live_data = get_sample_data /\ live_data # <<>>
    /\ (entry = "main" /\ FetchFailed
            /\ pc \in {"main_no_issues", "main_done", "main_raised"}) =>
          /\ pc = "main_done"
          /\ processed_issues # <<>>
          /\ analytics # None

\* C16: no record with the pull-request marker is ever among the issues
\* collect_issues gathers or returns, nor in what collect_live_data returns
\* from a fetched page; the result is the non-pull-request records of the
\* fetched pages, in the order received, cut at max_issues.
C16_NoPullRequestKept ==
    /\ \A k \in 1..Len(issues) : ~issues[k].pull_request
    /\ entry \in {"collect_issues", "main"} =>
          /\ issues = Received
          /\ raw_issues # None =>
                /\ \A k \in 1..Len(raw_issues) : ~raw_issues[k].pull_request
                /\ raw_issues = FirstN(Received, max_issues)
    /\ (entry = "cloud" /\ pc = "cloud_done" /\ ~FetchFailed) =>
          [k \in 1..Len(live_data) |-> live_data[k].id]
              = [k \in 1..Len(Received) |-> Received[k].id]

\* collect_issues has returned issues of two fetched pages that also held
\* pull requests
C16_Witness ==
    /\ entry = "collect_issues"
    /\ pc = "collect_done"
    /\ Len(requests) >= 2
    /\ \A k \in 1..Len(requests) :
          /\ requests[k].ok
          /\ \E j \in 1..Len(github_page(remote, requests[k])) :
                github_page(remote, requests[k])[j].pull_request
    /\ raw_issues # <<>>

\* collect_live_data has returned the issues of a fetched page that also held
\* pull requests
C16_CloudWitness ==
    /\ entry = "cloud" /\ pc = "cloud_done" /\ ~FetchFailed
    /\ live_data # <<>>
    /\ Len(live_data) < Len(github_page(remote, requests[1]))

\* the places in the listing that a request's (page, per_page) window covers
WindowFirst(r) == (r.page - 1) * r.per_page + 1
WindowLast(r) == r.page * r.per_page

\* the records of the listing that are no pull requests
RemoteIssueCount == Cardinality({k \in 1..Len(remote) : ~remote[k].pull_request})

\* collect_issues has returned to its caller
CollectReturned ==
    pc \in {"collect_done", "main_check", "main_no_issues", "main_done", "main_raised"}

\* C26: collect_issues never gathers or returns the same issue twice, and the
\* windows of the listing it requests follow one another: each answered
\* request's window starts right after the window of the request before it,
\* so that no record is fetched twice and none is skipped.
C26_NoIssueTwice ==
    entry = "collect_issues" =>
        /\ Cardinality({issues[k].id : k \in 1..Len(issues)}) = Len(issues)
        /\ CollectReturned =>
              Cardinality({raw_issues[k].id : k \in 1..Len(raw_issues)})
                  = Len(raw_issues)
        /\ \A k \in 1..(Len(requests) - 1) :
              WindowFirst(requests[k + 1]) = WindowLast(requests[k]) + 1

\* C27: collect_issues terminates against a finite listing, for every
\* max_issues >= 0 and every pattern of pull requests and request failures:
\* until it has returned, its next step (a request or the return) can always
\* be taken, and it never sends more requests than the listing has full
\* pages of 100, plus one, so that every run returns after finitely many
\* steps; it returns at most max_issues issues, and every request asks for a
\* page size between 1 and 100.
C27_Terminates ==
    entry \in {"collect_issues", "main"} =>
        /\ \A k \in 1..Len(requests) : requests[k].per_page \in 1..100
        /\ Len(requests) <= (Len(remote) \div per_page) + 1
        /\ pc = "collect_break" => requests # <<>>
        /\ ~CollectReturned => ENABLED (CollectRequest \/ CollectReturn)
        /\ CollectReturned => Len(raw_issues) <= max_issues

\* collect_issues has returned after three requests on a listing with pull
\* requests, the last one for a page smaller than 100
C27_Witness ==
    /\ entry = "collect_issues"
    /\ pc = "collect_done"
    /\ Len(requests) = 3
    /\ requests[3].per_page < per_page
    /\ raw_issues # <<>>
    /\ Len(raw_issues) <= max_issues

\* C28: when no request fails and the listing holds at least max_issues
\* records that are no pull requests, collect_issues returns exactly
\* max_issues issues; the loop is left before that only after a failed
\* request or after a page that reaches the end of the listing.
C28_ReturnsMaxIssues ==
    entry = "collect_issues" =>
        /\ (/\ pc = "collect_done"
            /\ \A k \in 1..Len(requests) : requests[k].ok
            /\ RemoteIssueCount >= max_issues) => Len(raw_issues) = max_issues
        /\ (pc = "collect_break" /\ Len(issues) < max_issues) =>
              \/ FetchFailed
              \/ WindowLast(requests[Len(requests)]) >= Len(remote)

(***************************************************************************)
(* advanced_app.load_data and the dashboard's use of it.  A persisted file *)
(* is missing (open raises FileNotFoundError), malformed (json.load raises *)
(* JSONDecodeError) or holds a JSON value.  A dict is a function on its    *)
(* keys; {} is the function with no key.                                   *)
(***************************************************************************)
data_paths == <<"../data/", "../src/data/", "./data/", "../">>

Missing == [kind |-> "missing"]
Malformed == [kind |-> "malformed"]
Json(v) == [kind |-> "json", value |-> v]

EmptyDict == [key \in {} |-> 0]

\* dict.get(key, default)
Get(dict, key, default) == IF key \in DOMAIN dict THEN dict[key] ELSE default

\* `with open(...) as f: json.load(f)`: the value, or the exception raised
json_load(file) ==
    IF file.kind = "missing" THEN [exc |-> "FileNotFoundError"]
    ELSE IF file.kind = "malformed" THEN [exc |-> "JSONDecodeError"]
    ELSE [exc |-> None, value |-> file.value]

\* the for loop over data_paths from location k on: FileNotFoundError moves
\* on to the next location, any other exception leaves the loop
RECURSIVE find_issues(_, _)
find_issues(fs, k) ==
    IF k > Len(data_paths)
    THEN [exc |-> "FileNotFoundError", location |-> 0, issues_file |-> None]
    ELSE LET opened == json_load(fs[k].tidb_issues)
         IN  IF opened.exc = "FileNotFoundError" THEN find_issues(fs, k + 1)
             ELSE IF opened.exc # None
             THEN [exc |-> opened.exc, location |-> 0, issues_file |-> None]
             ELSE [exc |-> None, location |-> k,
                   issues_file |-> data_paths[k] \o "tidb_issues.json",
                   issues |-> opened.value]

\* an analytics object without the community group
summary_to_analytics_no_community(summary) ==
    [summary    |-> summary,
     categories |-> [distribution |-> Get(summary, "categories", EmptyDict)],
     technology |-> [usage |-> Get(summary, "tech_usage", EmptyDict)],
     temporal   |-> EmptyDict]

\* "Convert summary format to analytics format"
summary_to_analytics(summary) ==
    [summary    |-> summary,
     categories |-> [distribution |-> Get(summary, "categories", EmptyDict)],
     technology |-> [usage |-> Get(summary, "tech_usage", EmptyDict)],
     temporal   |-> EmptyDict,
     community  |-> EmptyDict]

\* a minimal analytics whose solution rate counts every issue
minimal_analytics_all_solved(stored) ==
    [exc |-> IF Len(stored) = 0 THEN "ZeroDivisionError" ELSE None,
     analytics |->
        [summary |->
            [total_issues   |-> Len(stored),
             solution_rate  |-> Ratio(Len(stored), Len(stored)),
             avg_engagement |-> Ratio(SumField(stored, "engagement_score", 1),
                                      Len(stored))],
         categories |-> [distribution |-> EmptyDict],
         technology |-> [usage |-> EmptyDict],
         temporal   |-> EmptyDict,
         community  |-> EmptyDict]]

\* "Create minimal analytics if no file found": both ratios divide by
\* len(issues)
minimal_analytics(stored) ==
    [exc |-> IF Len(stored) = 0 THEN "ZeroDivisionError" ELSE None,
     analytics |->
        [summary |->
            [total_issues   |-> Len(stored),
             solution_rate  |-> Ratio(CountWhere(stored, "has_solution", TRUE),
                                      Len(stored)),
             avg_engagement |-> Ratio(SumField(stored, "engagement_score", 1),
                                      Len(stored))],
         categories |-> [distribution |-> EmptyDict],
         technology |-> [usage |-> EmptyDict],
         temporal   |-> EmptyDict,
         community  |-> EmptyDict]]

\* the analytics of the location the issues file was found at: analytics.json,
\* else summary.json converted, else the minimal analytics
load_analytics(dir, stored) ==
    LET from_analytics == json_load(dir.analytics)
        from_summary   == json_load(dir.summary)
    IN  IF from_analytics.exc = None
        THEN [exc |-> None, analytics |-> from_analytics.value]
        ELSE IF from_analytics.exc # "FileNotFoundError"
        THEN [exc |-> from_analytics.exc]
        ELSE IF from_summary.exc = None
        THEN [exc |-> None, analytics |-> summary_to_analytics(from_summary.value)]
        ELSE IF from_summary.exc # "FileNotFoundError"
        THEN [exc |-> from_summary.exc]
        ELSE minimal_analytics(stored)

\* pd.DataFrame(issues) and the conversion of its two date columns
dataframe_raises(stored) ==
    IF Len(stored) > 0 /\ "created_at" \in DataFrameColumns(stored)
       /\ "updated_at" \notin DataFrameColumns(stored)
    THEN "KeyError" ELSE None

\* analytics.json and summary.json looked for at the standard location,
\* wherever the issues file was found
load_data_analytics_from_standard_location(fs) ==
    LET found   == find_issues(fs, 1)
        loadedA == load_analytics(fs[1], found.issues)
        exc     == IF found.exc # None THEN found.exc
                   ELSE IF loadedA.exc # None THEN loadedA.exc
                   ELSE dataframe_raises(found.issues)
    IN  IF exc = None
        THEN [issues_file |-> found.issues_file,
              shown  |-> [message |-> "success", detail |-> found.issues_file],
              return |-> [issues |-> found.issues, analytics |-> loadedA.analytics,
                          df |-> found.issues]]
        ELSE [issues_file |-> found.issues_file,
              shown  |-> [message |-> "diagnostic", detail |-> exc],
              return |-> [issues |-> <<>>, analytics |-> EmptyDict, df |-> <<>>]]

\* load_data: what it shows and returns.  Every exception of the body is
\* caught by `except Exception`, which shows the diagnostic and returns
\* [], {} and an empty frame.
load_data(fs) ==
    LET found   == find_issues(fs, 1)
        loadedA == load_analytics(fs[found.location], found.issues)
        exc     == IF found.exc # None THEN found.exc
                   ELSE IF loadedA.exc # None THEN loadedA.exc
                   ELSE dataframe_raises(found.issues)
    IN  IF exc = None
        THEN [issues_file |-> found.issues_file,
              shown  |-> [message |-> "success", detail |-> found.issues_file],
              return |-> [issues |-> found.issues, analytics |-> loadedA.analytics,
                          df |-> found.issues]]
        ELSE [issues_file |-> found.issues_file,
              shown  |-> [message |-> "diagnostic", detail |-> exc],
              return |-> [issues |-> <<>>, analytics |-> EmptyDict, df |-> <<>>]]

(***************************************************************************)
(* The persisted files of a run.  Issue files hold records as save_data    *)
(* writes them (processed issues, with the updated_at column); analytics   *)
(* files hold generate_analytics' snapshot; summary files hold a flat      *)
(* summary, with or without its categories and tech_usage entries.         *)
(***************************************************************************)
StoredIssue(id) ==
    LET raw == CHOOSE r \in RawPool : r.id = id
    IN  process_issue(raw, Clock0, 0) @@ [updated_at |-> raw.created_at]

StoredLists == {<<>>, <<StoredIssue(1), StoredIssue(2), StoredIssue(3)>>}

StoredAnalytics == analytics_of(<<StoredIssue(1), StoredIssue(2), StoredIssue(3)>>)

StoredSummaries ==
    { [total_issues |-> 3, categories |-> [bug |-> 1, question |-> 2]],
      [total_issues |-> 3, tech_usage |-> [kubernetes |-> 1, docker |-> 1]] }

\* the states of one candidate location
Locations ==
    {[tidb_issues |-> Missing, analytics |-> Missing, summary |-> Missing],
     [tidb_issues |-> Malformed, analytics |-> Missing, summary |-> Missing]}
    \cup
    {[tidb_issues |-> Json(l), analytics |-> a, summary |-> Missing] :
        l \in StoredLists, a \in {Missing, Malformed, Json(StoredAnalytics)}}
    \cup
    {[tidb_issues |-> Json(l), analytics |-> Missing, summary |-> s] :
        l \in StoredLists, s \in {Malformed} \cup {Json(v) : v \in StoredSummaries}}

LoadInit ==
    /\ pc = "load_start"
    /\ files \in [1..Len(data_paths) -> Locations]
    /\ issues_file = None
    /\ loaded = None
    /\ shown = None
    /\ stopped = FALSE
    /\ OneIdle /\ ProcIdle /\ SimIdle /\ AggIdle /\ ColIdle

\* issues, analytics, df = load_data()
LoadData ==
    /\ pc = "load_start"
    /\ LET out == load_data(files)
       IN  /\ issues_file' = out.issues_file
           /\ shown' = out.shown
           /\ loaded' = out.return
    /\ pc' = "load_returned"
    /\ UNCHANGED <<files, stopped, oneVars, procVars, simVars, aggVars, colVars>>

\* `if not issues: st.stop()`
DashboardStop ==
    /\ pc = "load_returned"
    /\ loaded.issues = <<>>
    /\ stopped' = TRUE
    /\ pc' = "dashboard_stopped"
    /\ UNCHANGED <<files, issues_file, loaded, shown,
                   oneVars, procVars, simVars, aggVars, colVars>>

\* the dashboard goes on to render its pages from the loaded data
DashboardRender ==
    /\ pc = "load_returned"
    /\ loaded.issues # <<>>
    /\ pc' = "dashboard_rendering"
    /\ UNCHANGED <<loadVars, oneVars, procVars, simVars, aggVars, colVars>>

LoadNext == LoadData \/ DashboardStop \/ DashboardRender

SpecLoad == LoadInit /\ [][LoadNext]_vars

\* the locations whose issues file exists, and the first of them
PresentLocations == {k \in 1..Len(data_paths) : files[k].tidb_issues.kind # "missing"}
FirstPresent == CHOOSE k \in PresentLocations : \A m \in PresentLocations : k <= m

\* load_data has returned
Returned == pc # "load_start"

\* the issues file was found and parsed, at location FirstPresent
IssuesFound ==
    /\ PresentLocations # {}
    /\ files[FirstPresent].tidb_issues.kind = "json"

AnalyticsKeyGroups == {"summary", "categories", "technology", "temporal", "community"}

\* C13: when load_data finds the issues file and analytics.json is absent
\* next to it while summary.json is present, the analytics it returns is
\* built from the summary alone (the summary itself, its categories as the
\* distribution, its tech_usage as the usage, nothing else) and has exactly
\* the key groups summary, categories, technology, temporal and community.
C13_SummaryOnlyAnalytics ==
    (Returned /\ IssuesFound
        /\ files[FirstPresent].analytics.kind = "missing"
        /\ files[FirstPresent].summary.kind = "json") =>
        LET summary == files[FirstPresent].summary.value
        IN  /\ shown.message = "success"
            /\ DOMAIN loaded.analytics = AnalyticsKeyGroups
            /\ loaded.analytics.summary = summary
            /\ loaded.analytics.categories =
                  [distribution |-> IF "categories" \in DOMAIN summary
                                    THEN summary.categories ELSE EmptyDict]
            /\ loaded.analytics.technology =
                  [usage |-> IF "tech_usage" \in DOMAIN summary
                             THEN summary.tech_usage ELSE EmptyDict]
            /\ DOMAIN loaded.analytics.temporal = {}
            /\ DOMAIN loaded.analytics.community = {}

\* load_data has returned analytics built from a summary that has categories
\* and no tech_usage, found next to a non-empty issues file
C13_Witness ==
    /\ Returned /\ IssuesFound
    /\ files[FirstPresent].analytics.kind = "missing"
    /\ files[FirstPresent].summary.kind = "json"
    /\ "tech_usage" \notin DOMAIN files[FirstPresent].summary.value
    /\ loaded.issues # <<>>
    /\ DOMAIN loaded.analytics.categories.distribution # {}

\* analytics.json and summary.json are both absent next to the issues file
\* that was found
BothAbsent ==
    /\ IssuesFound
    /\ files[FirstPresent].analytics.kind = "missing"
    /\ files[FirstPresent].summary.kind = "missing"

C15_MalformedCascades ==
    LET usable == {k \in 1..Len(data_paths) :
                      /\ files[k].tidb_issues.kind = "json"
                      /\ files[k].tidb_issues.value # <<>>
                      /\ files[k].analytics.kind = "json"}
        first  == CHOOSE k \in usable : \A m \in usable : k <= m
    IN  Returned =>
            /\ raised = None
            /\ (usable # {}
                  /\ \A m \in 1..(first - 1) : files[m].tidb_issues.kind # "json") =>
                  /\ issues_file = data_paths[first] \o "tidb_issues.json"
                  /\ loaded.issues = files[first].tidb_issues.value
                  /\ shown.message = "success"


\* C29: load_data probes the locations ../data/, ../src/data/, ./data/, ../
\* in this order and takes the issues from the first one that has a
\* tidb_issues.json; the analytics it returns with them is read from
\* analytics.json or summary.json of that same location (or computed from
\* those issues), and no later location is used: if the first issues file
\* present cannot be parsed, nothing is loaded.
C29_FirstLocationOnly ==
    Returned =>
        IF PresentLocations = {}
        THEN /\ issues_file = None
             /\ shown.message = "diagnostic"
             /\ loaded.issues = <<>>
        ELSE LET dir  == files[FirstPresent]
                 path == <<"../data/", "../src/data/", "./data/", "../">>[FirstPresent]
             IN  /\ dir.tidb_issues.kind = "json"
                       => issues_file = path \o "tidb_issues.json"
                 /\ dir.tidb_issues.kind = "malformed"
                       => /\ issues_file = None
                          /\ shown.message = "diagnostic"
                          /\ loaded.issues = <<>>
                 /\ shown.message = "success" =>
                       /\ shown.detail = path \o "tidb_issues.json"
                       /\ loaded.issues = dir.tidb_issues.value
                       /\ IF dir.analytics.kind = "json"
                          THEN loaded.analytics = dir.analytics.value
                          ELSE /\ dir.analytics.kind = "missing"
                               /\ IF dir.summary.kind = "json"
                                  THEN loaded.analytics.summary = dir.summary.value
                                  ELSE /\ dir.summary.kind = "missing"
                                       /\ loaded.analytics.summary.total_issues
                                             = Len(dir.tidb_issues.value)
                                       /\ DOMAIN loaded.analytics.technology.usage = {}

\* the standard location has no issues file; the issues and the analytics
\* were loaded from ../src/data/, although ./data/ has an issues file too,
\* with a summary instead of an analytics file
C29_Witness ==
    /\ Returned
    /\ shown.message = "success"
    /\ FirstPresent = 2
    /\ files[2].analytics.kind = "json"
    /\ loaded.analytics = files[2].analytics.value
    /\ files[3].tidb_issues.kind = "json"
    /\ files[3].tidb_issues.value # loaded.issues
    /\ files[3].summary.kind = "json"
    /\ issues_file = "../src/data/tidb_issues.json"

====
